---- MODULE Spec2Model ----
(***************************************************************************)
(* Server-side Spotify integration layer of the playlist explorer: the     *)
(* genre cache and validator, the token provider and request wrapper, and  *)
(* the search orchestrator, in its three source variants:                  *)
(*   "sdk"     src/server/api/_spotify-api.ts (SDK, one combined query)    *)
(*   "fanout"  src/unnamed/part_002           (per-genre fan-out)          *)
(*   "curated" src/unnamed/part_003           (SDK, static genre list)     *)
(* A process runs exactly one of them; Init picks which.                   *)
(***************************************************************************)
EXTENDS Integers, Sequences, FiniteSets, TLC

VARIABLES
    impl,             \* which variant of _spotify-api is deployed
    nodeEnv,          \* process.env.NODE_ENV
    credsConfigured,  \* SPOTIFY_CLIENT_ID and SPOTIFY_CLIENT_SECRET are both set
    now,              \* Date.now(), in milliseconds
    ticks,            \* how many times the clock has advanced
    genreCache,       \* module variable genreCache: None (null) or Some(list)
    genreCacheExpiry, \* module variable genreCacheExpiry
    tokenCache,       \* module variable tokenCache: None (null) or Some([token, expiresAt])
    op,               \* the operation that completed last
    arg,              \* its argument
    upstream,         \* the upstream responses it consumed, in request order
    requests,         \* the upstream requests it issued, in order
    ret,              \* what it returned or raised
    lastGenres,       \* value of the latest successful getAvailableGenres, None before the first
    tasks,            \* the calls running concurrently, each at its pending await, or settled
    history,          \* what the latest writes to the two caches stored
    page,             \* the refs of the search page: isLoading, searchResults
    searchForm        \* the refs of the SearchForm component: isLoading, error

vars == <<impl, nodeEnv, credsConfigured, now, ticks, genreCache, genreCacheExpiry,
          tokenCache, op, arg, upstream, requests, ret, lastGenres, tasks, history, page,
          searchForm>>

(***************************************************************************)
(* Bounds of the model.                                                    *)
(***************************************************************************)
MaxItems == 2     \* playlist records in the upstream responses of one search
MaxListLen == 2   \* labels in a freely chosen genre list
MaxTicks == 2     \* clock advances in one behaviour

(***************************************************************************)
(* Program constants.                                                      *)
(***************************************************************************)
MaxGenres == 10
GenreCacheTTL == 3600000
SdkPageLimit == 50
TokenBufferTime == 300000

None == <<>>
Some(x) == <<x>>

Impls == {"sdk", "fanout", "curated"}

Min(a, b) == IF a < b THEN a ELSE b

\* Math.ceil(a / b) for a >= 0, b > 0
Ceil(a, b) == (a + b - 1) \div b

(***************************************************************************)
(* Strings.  A label is a sequence of characters, so that toLowerCase,     *)
(* trim, the default sort order and join act on it as they do in the code. *)
(***************************************************************************)
Chars == {" ", ",", "J", "R", "j", "k", "r", "x", "z"}

\* UTF-16 code unit of a character: the order Array.prototype.sort() uses
Code(c) ==
    CASE c = " " -> 32
      [] c = "," -> 44
      [] c = "J" -> 74
      [] c = "R" -> 82
      [] c = "j" -> 106
      [] c = "k" -> 107
      [] c = "r" -> 114
      [] c = "x" -> 120
      [] c = "z" -> 122

ToLowerChar(c) ==
    CASE c = "J" -> "j"
      [] c = "R" -> "r"
      [] OTHER -> c

toLowerCase(s) == [i \in 1..Len(s) |-> ToLowerChar(s[i])]

RECURSIVE TrimStart(_)
TrimStart(s) ==
    IF s # <<>> /\ Head(s) = " " THEN TrimStart(Tail(s)) ELSE s

RECURSIVE TrimEnd(_)
TrimEnd(s) ==
    IF s # <<>> /\ s[Len(s)] = " " THEN TrimEnd(SubSeq(s, 1, Len(s) - 1)) ELSE s

trim(s) == TrimEnd(TrimStart(s))

\* a < b in code-unit lexicographic order
RECURSIVE StrLess(_, _)
StrLess(a, b) ==
    IF b = <<>> THEN FALSE
    ELSE IF a = <<>> THEN TRUE
    ELSE IF Code(Head(a)) # Code(Head(b)) THEN Code(Head(a)) < Code(Head(b))
    ELSE StrLess(Tail(a), Tail(b))

\* Array.prototype.join(', ')
RECURSIVE Join(_)
Join(list) ==
    IF list = <<>> THEN <<>>
    ELSE IF Len(list) = 1 THEN list[1]
    ELSE list[1] \o <<",", " ">> \o Join(Tail(list))

Map(f(_), s) == [i \in 1..Len(s) |-> f(s[i])]

RECURSIVE Filter(_, _)
Filter(keep(_), s) ==
    IF s = <<>> THEN <<>>
    ELSE (IF keep(Head(s)) THEN <<Head(s)>> ELSE <<>>) \o Filter(keep, Tail(s))

\* const x = value; body(x): the value is computed once and named
With(value, body(_)) == body(value)

Includes(s, x) == \E i \in 1..Len(s) : s[i] = x

\* insert x into the sorted sequence s after every element not greater than it
RECURSIVE InsertSorted(_, _, _)
InsertSorted(less(_, _), s, x) ==
    IF s = <<>> THEN <<x>>
    ELSE IF less(x, Head(s)) THEN <<x>> \o s
    ELSE <<Head(s)>> \o InsertSorted(less, Tail(s), x)

\* Array.prototype.sort: stable, ordered by the strict order less
RECURSIVE SortBy(_, _)
SortBy(less(_, _), s) ==
    IF s = <<>> THEN <<>>
    ELSE InsertSorted(less, SortBy(less, SubSeq(s, 1, Len(s) - 1)), s[Len(s)])

\* a sort that leaves the array as it is
SortStrings_Unsorted(s) == s

\* Array.prototype.sort() without a comparator
SortStrings(s) == SortBy(StrLess, s)

(***************************************************************************)
(* Errors.  A message is a sequence of pieces, each a literal of the code  *)
(* or an interpolated label text, so that a template string keeps what it  *)
(* embeds and a fixed message embeds nothing.                              *)
(***************************************************************************)
Lit(s) == [lit |-> s, chars |-> <<>>]
Str(cs) == [lit |-> "", chars |-> cs]

\* new Error(message): no status property
NewError(msg) == [status |-> None, message |-> msg]

\* an error object thrown by the SDK client for an HTTP status
SdkError(st) == [status |-> Some(st), message |-> <<Lit("sdk request failed")>>]

\* a network failure inside the SDK client: an Error without status
SdkNetworkError == NewError(<<Lit("fetch failed")>>)

StatusText(st) ==
    CASE st = 400 -> "400"
      [] st = 401 -> "401"
      [] st = 403 -> "403"
      [] st = 404 -> "404"
      [] st = 429 -> "429"
      [] st = 500 -> "500"
      [] st = 502 -> "502"
      [] st = 503 -> "503"
      [] st = 504 -> "504"
      [] OTHER -> "0"

CredentialsMessage ==
    <<Lit("Spotify API credentials not configured. Please set SPOTIFY_CLIENT_ID and SPOTIFY_CLIENT_SECRET environment variables.")>>

mapSpotifyError(error) ==
    LET st == IF error.status = None THEN 0 ELSE error.status[1]
        defaultError == [message |-> <<Lit("Unable to connect to Spotify. Please try again later.")>>,
                         details |-> error.message]
    IN  IF st = 0 THEN defaultError
        ELSE CASE st = 400 ->
                    [message |-> <<Lit("Invalid search parameters. Please check your genre selection and follower count.")>>,
                     details |-> error.message]
               [] st = 401 ->
                    [message |-> <<Lit("Spotify authentication failed. Please check configuration.")>>,
                     details |-> <<Lit("API credentials may be invalid or expired")>>]
               [] st = 403 ->
                    [message |-> <<Lit("Access denied. Please verify your Spotify app permissions.")>>,
                     details |-> error.message]
               [] st = 404 ->
                    [message |-> <<Lit("The requested resource was not found.")>>,
                     details |-> error.message]
               [] st = 429 ->
                    [message |-> <<Lit("Too many requests. Please try again in a moment.")>>,
                     details |-> <<Lit("Spotify API rate limit exceeded")>>]
               [] st \in {500, 502, 503, 504} ->
                    [message |-> <<Lit("Spotify is temporarily unavailable. Please try again later.")>>,
                     details |-> <<Lit("Server error: "), Lit(StatusText(st))>>]
               [] OTHER -> defaultError

\* every value the model throws is an Error instance or an SDK error object
createSpotifyErrorResponse(error) ==
    IF error.status # None THEN mapSpotifyError(error)
    ELSE [message |-> <<Lit("An unexpected error occurred while connecting to Spotify.")>>,
          details |-> error.message]

(***************************************************************************)
(* Upstream requests, as the log of one operation records them.            *)
(***************************************************************************)
TokenRequest == [kind |-> "token", query |-> <<>>, limit |-> 0]
GenreSeedsRequest == [kind |-> "genres", query |-> <<>>, limit |-> 0]
SearchRequest(q, n) == [kind |-> "search", query |-> q, limit |-> n]

Count(kind, reqs) == Cardinality({i \in 1..Len(reqs) : reqs[i].kind = kind})

(***************************************************************************)
(* Token provider and request wrapper (src/unnamed/part_005), run without  *)
(* interleaving: each await completes before any other task runs.          *)
(***************************************************************************)
\* a catch block that leaves the slot alone
TokenCacheOnError_Keep(tc) == tc

\* catch: tokenCache = null
TokenCacheOnError(tc) == None

\* an expiry without the safety buffer
TokenExpiry_NoBuffer(t, expires_in) == t + (expires_in * 1000)

\* expiresAt: Date.now() + (tokenData.expires_in * 1000) - bufferTime
TokenExpiry(t, expires_in) == t + (expires_in * 1000) - TokenBufferTime

\* exch: the token endpoint's answer, [ok, access_token, expires_in, error]
\* a configuration test that never fails
MissingCredentials_Never(creds) == FALSE

\* !clientId || !clientSecret
MissingCredentials(creds) == ~creds

getSpotifyAccessToken(tc, t, creds, exch) ==
    IF tc # None /\ tc[1].expiresAt > t
    THEN [ok |-> TRUE, token |-> tc[1].token, error |-> NewError(<<>>),
          tokenCache |-> tc, reqs |-> <<>>]
    ELSE IF MissingCredentials(creds)
    THEN [ok |-> FALSE, token |-> "", error |-> NewError(CredentialsMessage),
          tokenCache |-> tc, reqs |-> <<>>]
    ELSE IF ~exch.ok
    THEN [ok |-> FALSE, token |-> "",
          error |-> NewError(<<Lit("Failed to obtain Spotify access token: ")>>
                             \o (IF exch.error = "fetch failed" THEN <<>>
                                 ELSE <<Lit("Spotify authentication failed: ")>>)
                             \o <<Lit(exch.error)>>),
          tokenCache |-> TokenCacheOnError(tc), reqs |-> <<TokenRequest>>]
    ELSE [ok |-> TRUE, token |-> exch.access_token, error |-> NewError(<<>>),
          tokenCache |-> Some([token |-> exch.access_token,
                               expiresAt |-> TokenExpiry(t, exch.expires_in)]),
          reqs |-> <<TokenRequest>>]

createSpotifyError(response) ==
    NewError(<<Lit("Spotify API error ("), Lit(StatusText(response.status)), Lit("): "),
               Lit("upstream error")>>)

\* a clear that leaves the token in place
clearTokenCache_Keep(tc) == tc

clearTokenCache(tc) == None

\* net: [exch1, resp1, exch2, resp2]: the answers to the token exchange, the
\* request, the re-authentication and the retry, each used only if it is asked for.
\* tcStart is the token cache when the call starts (getSpotifyAccessToken tests it
\* before its first await), tcCur the cache when its continuation runs.
makeSpotifyRequestFrom(tcStart, tcCur, t, creds, req, net) ==
    With(getSpotifyAccessToken(tcStart, t, creds, net.exch1), LAMBDA tok1 :
    LET cur1 == IF tok1.reqs = <<>> THEN tcCur ELSE tok1.tokenCache
    IN  IF ~tok1.ok
        THEN [ok |-> FALSE, body |-> <<>>, error |-> tok1.error,
              tokenCache |-> cur1, reqs |-> tok1.reqs, ups |-> <<>>]
        ELSE IF net.resp1.status = 200
        THEN [ok |-> TRUE, body |-> net.resp1.body, error |-> NewError(<<>>),
              tokenCache |-> cur1, reqs |-> tok1.reqs \o <<req>>,
              ups |-> <<net.resp1>>]
        ELSE IF net.resp1.status = 401 /\ cur1 # None
        THEN With(getSpotifyAccessToken(clearTokenCache(cur1), t, creds, net.exch2), LAMBDA tok2 :
                 IF ~tok2.ok
                 THEN [ok |-> FALSE, body |-> <<>>, error |-> tok2.error,
                       tokenCache |-> tok2.tokenCache,
                       reqs |-> tok1.reqs \o <<req>> \o tok2.reqs, ups |-> <<net.resp1>>]
                 ELSE IF net.resp2.status = 200
                 THEN [ok |-> TRUE, body |-> net.resp2.body, error |-> NewError(<<>>),
                       tokenCache |-> tok2.tokenCache,
                       reqs |-> tok1.reqs \o <<req>> \o tok2.reqs \o <<req>>,
                       ups |-> <<net.resp1, net.resp2>>]
                 ELSE [ok |-> FALSE, body |-> <<>>, error |-> createSpotifyError(net.resp2),
                       tokenCache |-> tok2.tokenCache,
                       reqs |-> tok1.reqs \o <<req>> \o tok2.reqs \o <<req>>,
                       ups |-> <<net.resp1, net.resp2>>])
        ELSE [ok |-> FALSE, body |-> <<>>, error |-> createSpotifyError(net.resp1),
              tokenCache |-> cur1, reqs |-> tok1.reqs \o <<req>>,
              ups |-> <<net.resp1>>])

\* a call that no other task interleaves with
makeSpotifyRequest(tc, t, creds, req, net) ==
    makeSpotifyRequestFrom(tc, tc, t, creds, req, net)

\* getSpotifyClient (src/unnamed/part_001): throws when a credential is missing
getSpotifyClient(creds) ==
    IF MissingCredentials(creds) THEN [ok |-> FALSE, error |-> NewError(CredentialsMessage)]
    ELSE [ok |-> TRUE, error |-> NewError(<<>>)]


(***************************************************************************)
(* Genre cache and validator.                                              *)
(***************************************************************************)
rock == <<"r", "k">>
jazz == <<"j", "z">>
RockUpper == <<"R", "k">>
RockPadded == <<" ", "R", "k", " ">>
JazzUpper == <<"J", "z">>
unknownGenre == <<"x">>

\* the names of constants/spotify-genres, in the file's order
CuratedGenreNames == <<rock, jazz>>

\* genre lists the upstream seed endpoint may answer with
SeedLists == {<<rock, jazz>>, <<jazz, RockUpper>>}

\* a validity test that ignores the expiry
CacheValid_NoExpiry(cache, expiry, t) == cache # None

CacheValid(cache, expiry, t) == cache # None /\ t < expiry

\* a catch block that never falls back on the cache
HasCachedData_Never(cache) == FALSE

\* catch block: if (genreCache), true for any array, expired or not
HasCachedData(cache) == cache # None

adaptSpotifyGenres(response) ==
    IF response.genres = None THEN <<>> ELSE response.genres[1]

\* src/server/api/_spotify-api.ts; net.sdk is the outcome of client.recommendations.genreSeeds()
getAvailableGenres_sdk(cache, expiry, tc, t, creds, net) ==
    IF CacheValid(cache, expiry, t)
    THEN [ok |-> TRUE, value |-> cache[1], error |-> NewError(<<>>), cache |-> cache,
          expiry |-> expiry, tokenCache |-> tc, reqs |-> <<>>, ups |-> <<>>]
    ELSE LET client == getSpotifyClient(creds)
             thrown == IF ~client.ok THEN Some(client.error)
                       ELSE IF ~net.sdk.ok THEN Some(net.sdk.error)
                       ELSE None
             reqs == IF client.ok THEN <<GenreSeedsRequest>> ELSE <<>>
             ups == IF client.ok THEN <<net.sdk>> ELSE <<>>
         IN  IF thrown = None
             THEN With(SortStrings(adaptSpotifyGenres(net.sdk.body)), LAMBDA sorted :
                       [ok |-> TRUE, value |-> sorted, error |-> NewError(<<>>),
                        cache |-> Some(sorted), expiry |-> t + GenreCacheTTL,
                        tokenCache |-> tc, reqs |-> reqs, ups |-> ups])
             ELSE IF HasCachedData(cache)
             THEN [ok |-> TRUE, value |-> cache[1], error |-> NewError(<<>>), cache |-> cache,
                   expiry |-> expiry, tokenCache |-> tc, reqs |-> reqs, ups |-> ups]
             ELSE [ok |-> FALSE, value |-> <<>>,
                   error |-> NewError(createSpotifyErrorResponse(thrown[1]).message),
                   cache |-> cache, expiry |-> expiry, tokenCache |-> tc,
                   reqs |-> reqs, ups |-> ups]

\* src/unnamed/part_002; net is the network behaviour makeSpotifyRequest meets
getAvailableGenres_fanout(cache, expiry, tc, t, creds, net) ==
    IF CacheValid(cache, expiry, t)
    THEN [ok |-> TRUE, value |-> cache[1], error |-> NewError(<<>>), cache |-> cache,
          expiry |-> expiry, tokenCache |-> tc, reqs |-> <<>>, ups |-> <<>>]
    ELSE With(makeSpotifyRequest(tc, t, creds, GenreSeedsRequest, net), LAMBDA r :
         LET thrown == IF ~r.ok THEN Some(r.error)
                       ELSE IF r.body.genres = None
                       THEN Some(NewError(<<Lit("Cannot read properties of undefined (reading 'sort')")>>))
                       ELSE None
         IN  IF thrown = None
             THEN With(SortStrings(r.body.genres[1]), LAMBDA sorted :
                       [ok |-> TRUE, value |-> sorted, error |-> NewError(<<>>),
                        cache |-> Some(sorted), expiry |-> t + GenreCacheTTL,
                        tokenCache |-> r.tokenCache, reqs |-> r.reqs, ups |-> r.ups])
             ELSE IF HasCachedData(cache)
             THEN [ok |-> TRUE, value |-> cache[1], error |-> NewError(<<>>), cache |-> cache,
                   expiry |-> expiry, tokenCache |-> r.tokenCache, reqs |-> r.reqs,
                   ups |-> r.ups]
             ELSE [ok |-> FALSE, value |-> <<>>,
                   error |-> NewError(<<Lit("Failed to fetch available genres: ")>>
                                      \o thrown[1].message),
                   cache |-> cache, expiry |-> expiry, tokenCache |-> r.tokenCache,
                   reqs |-> r.reqs, ups |-> r.ups])

\* src/unnamed/part_003: the curated static list, no upstream request
getAvailableGenres_curated(cache, expiry, tc, t, creds, net) ==
    IF CacheValid(cache, expiry, t)
    THEN [ok |-> TRUE, value |-> cache[1], error |-> NewError(<<>>), cache |-> cache,
          expiry |-> expiry, tokenCache |-> tc, reqs |-> <<>>, ups |-> <<>>]
    ELSE With(SortStrings(CuratedGenreNames), LAMBDA sorted :
             [ok |-> TRUE, value |-> sorted, error |-> NewError(<<>>),
              cache |-> Some(sorted), expiry |-> t + GenreCacheTTL,
              tokenCache |-> tc, reqs |-> <<>>, ups |-> <<>>])

getAvailableGenres(i, cache, expiry, tc, t, creds, net) ==
    CASE i = "sdk" -> getAvailableGenres_sdk(cache, expiry, tc, t, creds, net)
      [] i = "fanout" -> getAvailableGenres_fanout(cache, expiry, tc, t, creds, net)
      [] i = "curated" -> getAvailableGenres_curated(cache, expiry, tc, t, creds, net)

\* a normalisation that forgets to trim
NormalizeGenre_NoTrim(g) == toLowerCase(g)

NormalizeGenre(g) == trim(toLowerCase(g))

\* the partition validateGenres computes once it has the available list
PartitionGenres(genres, availableGenres) ==
    LET lowerAvailableGenres == Map(toLowerCase, availableGenres)
        normalizedGenres == Map(NormalizeGenre, genres)
        IsAvailable(genre) == Includes(lowerAvailableGenres, genre)
        IsNotAvailable(genre) == ~Includes(lowerAvailableGenres, genre)
        validGenres == Filter(IsAvailable, normalizedGenres)
        invalidGenres == Filter(IsNotAvailable, normalizedGenres)
    IN  [isValid |-> Len(invalidGenres) = 0, validGenres |-> validGenres,
         invalidGenres |-> invalidGenres, error |-> None]

\* a validator that loads the available genres before it looks at the list length
validateGenres_FetchFirst(i, genres, cache, expiry, tc, t, creds, net) ==
    With(getAvailableGenres(i, cache, expiry, tc, t, creds, net), LAMBDA g :
    LET rejected(msg) ==
            [ok |-> TRUE,
             value |-> [isValid |-> FALSE, validGenres |-> <<>>, invalidGenres |-> <<>>,
                        error |-> Some(msg)],
             error |-> NewError(<<>>), cache |-> g.cache, expiry |-> g.expiry,
             tokenCache |-> g.tokenCache, reqs |-> g.reqs, ups |-> g.ups, fetched |-> None]
    IN  IF Len(genres) = 0 THEN rejected("At least one genre is required")
        ELSE IF Len(genres) > MaxGenres THEN rejected("Maximum of 10 genres allowed")
        ELSE IF g.ok
        THEN [ok |-> TRUE, value |-> PartitionGenres(genres, g.value),
              error |-> NewError(<<>>), cache |-> g.cache, expiry |-> g.expiry,
              tokenCache |-> g.tokenCache, reqs |-> g.reqs, ups |-> g.ups,
              fetched |-> Some(g.value)]
        ELSE [ok |-> FALSE, value |-> <<>>,
              error |-> NewError(<<Lit("Genre validation failed: ")>> \o g.error.message),
              cache |-> g.cache, expiry |-> g.expiry, tokenCache |-> g.tokenCache,
              reqs |-> g.reqs, ups |-> g.ups, fetched |-> None])

validateGenres(i, genres, cache, expiry, tc, t, creds, net) ==
    IF Len(genres) = 0
    THEN [ok |-> TRUE,
          value |-> [isValid |-> FALSE, validGenres |-> <<>>, invalidGenres |-> <<>>,
                     error |-> Some("At least one genre is required")],
          error |-> NewError(<<>>), cache |-> cache, expiry |-> expiry,
          tokenCache |-> tc, reqs |-> <<>>, ups |-> <<>>, fetched |-> None]
    ELSE IF Len(genres) > MaxGenres
    THEN [ok |-> TRUE,
          value |-> [isValid |-> FALSE, validGenres |-> <<>>, invalidGenres |-> <<>>,
                     error |-> Some("Maximum of 10 genres allowed")],
          error |-> NewError(<<>>), cache |-> cache, expiry |-> expiry,
          tokenCache |-> tc, reqs |-> <<>>, ups |-> <<>>, fetched |-> None]
    ELSE With(getAvailableGenres(i, cache, expiry, tc, t, creds, net), LAMBDA g :
             IF g.ok
             THEN [ok |-> TRUE, value |-> PartitionGenres(genres, g.value),
                   error |-> NewError(<<>>), cache |-> g.cache, expiry |-> g.expiry,
                   tokenCache |-> g.tokenCache, reqs |-> g.reqs, ups |-> g.ups,
                   fetched |-> Some(g.value)]
             ELSE [ok |-> FALSE, value |-> <<>>,
                   error |-> NewError(<<Lit("Genre validation failed: ")>> \o g.error.message),
                   cache |-> g.cache, expiry |-> g.expiry, tokenCache |-> g.tokenCache,
                   reqs |-> g.reqs, ups |-> g.ups, fetched |-> None])


(***************************************************************************)
(* Playlists: adapters, merge, sort, truncation.                           *)
(***************************************************************************)
\* an upstream playlist object; followers = None when the followers object is absent
Item(id, followers, hasOwner, hasTracks) ==
    [id |-> id, followers |-> followers, hasOwner |-> hasOwner, hasTracks |-> hasTracks]

\* the internal Playlist, reduced to the fields the orchestrator reads
Playlist(id, followerCount, genres) ==
    [id |-> id, followerCount |-> followerCount, genres |-> genres]

SearchBody(items, total) == [playlists |-> [items |-> items, total |-> total]]

\* adaptSpotifyPlaylist reads followers.total and owner.id: it throws without them
AdaptThrows(item) == item.followers = None \/ ~item.hasOwner

adaptSpotifyPlaylist(sdkPlaylist, genres) ==
    Playlist(sdkPlaylist.id, sdkPlaylist.followers[1], genres)

\* None when some record makes the adapter throw, else Some(the adapted list)
adaptSpotifyPlaylists(sdkPlaylists, searchGenres) ==
    IF \E i \in 1..Len(sdkPlaylists) : AdaptThrows(sdkPlaylists[i])
    THEN None
    ELSE Some([i \in 1..Len(sdkPlaylists) |-> adaptSpotifyPlaylist(sdkPlaylists[i], searchGenres)])

\* part_002: mapSpotifyPlaylistToInternal reads followers.total
MapThrows(item) == item.followers = None

mapSpotifyPlaylistToInternal(spotifyPlaylist) ==
    Playlist(spotifyPlaylist.id, spotifyPlaylist.followers[1], <<>>)

\* part_002: playlist => playlist.owner && playlist.tracks
IsComplete(item) == item.hasOwner /\ item.hasTracks

\* a filter that lets every playlist through
MeetsMinimum_Always(playlist, minFollowerCount) == TRUE

MeetsMinimum(playlist, minFollowerCount) == playlist.followerCount >= minFollowerCount

\* Map.prototype.set: a new key is appended, an existing key keeps its position
MapSet(m, playlist) ==
    IF \E i \in 1..Len(m) : m[i].id = playlist.id
    THEN [i \in 1..Len(m) |-> IF m[i].id = playlist.id THEN playlist ELSE m[i]]
    ELSE Append(m, playlist)

RECURSIVE MergePlaylists(_, _, _)
MergePlaylists(m, playlists, minFollowerCount) ==
    IF playlists = <<>> THEN m
    ELSE MergePlaylists(IF MeetsMinimum(Head(playlists), minFollowerCount)
                        THEN MapSet(m, Head(playlists)) ELSE m,
                        Tail(playlists), minFollowerCount)

RECURSIVE MergeResults(_, _, _)
MergeResults(m, searchResults, minFollowerCount) ==
    IF searchResults = <<>> THEN m
    ELSE MergeResults(MergePlaylists(m, Head(searchResults).playlists, minFollowerCount),
                      Tail(searchResults), minFollowerCount)

RECURSIVE FilterByFollowers(_, _)
FilterByFollowers(playlists, minFollowerCount) ==
    IF playlists = <<>> THEN <<>>
    ELSE (IF MeetsMinimum(Head(playlists), minFollowerCount) THEN <<Head(playlists)>> ELSE <<>>)
         \o FilterByFollowers(Tail(playlists), minFollowerCount)

\* a comparator with the operands swapped
MoreFollowers_Ascending(a, b) == a.followerCount < b.followerCount

\* (a, b) => b.followerCount - a.followerCount is negative: a goes first
MoreFollowers(a, b) == b.followerCount - a.followerCount < 0

SortByFollowers(playlists) == SortBy(MoreFollowers, playlists)

\* a slice that keeps everything
Slice_All(playlists, limit) == playlists

\* Array.prototype.slice(0, limit)
Slice(playlists, limit) == SubSeq(playlists, 1, Min(limit, Len(playlists)))

\* a result that reports the upstream's total
SearchResultOf_UpstreamTotal(playlists, upstreamTotal, criteria, t) ==
    [playlists |-> playlists, totalFound |-> upstreamTotal, searchCriteria |-> criteria,
     timestamp |-> t]

SearchResultOf(playlists, upstreamTotal, criteria, t) ==
    [playlists |-> playlists, totalFound |-> Len(playlists), searchCriteria |-> criteria,
     timestamp |-> t]

(***************************************************************************)
(* Search orchestrator.                                                    *)
(***************************************************************************)
InvalidGenresError(validation) ==
    NewError(<<Lit("Invalid genres: "), Str(Join(validation.invalidGenres))>>)

\* a catch block that returns the records that could be mapped
PlaylistsOnFailure_Partial(complete) ==
    Map(mapSpotifyPlaylistToInternal,
        SelectSeq(complete, LAMBDA item : ~MapThrows(item)))

\* catch: return { playlists: [], total: 0 }
PlaylistsOnFailure(complete) == <<>>

\* part_002 searchPlaylistsByGenre: a failed request or a throwing record gives no playlists
searchPlaylistsByGenre(genre, limit, tcStart, tcCur, t, creds, net) ==
    With(makeSpotifyRequestFrom(tcStart, tcCur, t, creds,
                                SearchRequest(<<genre>>, Min(limit, SdkPageLimit)), net),
         LAMBDA r :
    With(IF r.ok THEN Filter(IsComplete, r.body.playlists.items) ELSE <<>>, LAMBDA complete :
    LET failed == ~r.ok \/ \E i \in 1..Len(complete) : MapThrows(complete[i])
    IN  [playlists |-> IF failed THEN PlaylistsOnFailure(complete)
                       ELSE Map(mapSpotifyPlaylistToInternal, complete),
         total |-> IF failed THEN 0 ELSE r.body.playlists.total,
         failed |-> failed,
         tokenCache |-> r.tokenCache, reqs |-> r.reqs, ups |-> r.ups]))

\* the per-genre searches of one fan-out: all start on the same token cache, their
\* continuations run in the order of the genre list
RECURSIVE SearchEach(_, _, _, _, _, _, _)
SearchEach(genres, limit, tcStart, tcCur, t, creds, nets) ==
    IF genres = <<>>
    THEN [results |-> <<>>, tokenCache |-> tcCur, reqs |-> <<>>, ups |-> <<>>]
    ELSE With(searchPlaylistsByGenre(Head(genres), limit, tcStart, tcCur, t, creds, Head(nets)),
              LAMBDA one :
         With(SearchEach(Tail(genres), limit, tcStart, one.tokenCache, t, creds, Tail(nets)),
              LAMBDA rest :
             [results |-> <<[playlists |-> one.playlists, total |-> one.total,
                             failed |-> one.failed]>> \o rest.results,
              tokenCache |-> rest.tokenCache,
              reqs |-> one.reqs \o rest.reqs,
              ups |-> one.ups \o rest.ups]))

RECURSIVE SumTotals(_)
SumTotals(searchResults) ==
    IF searchResults = <<>> THEN 0 ELSE Head(searchResults).total + SumTotals(Tail(searchResults))

\* src/unnamed/part_002; net = [genres, searches]
searchPlaylistsByGenres_fanout(criteria, cache, expiry, tc, t, creds, net) ==
    With(validateGenres("fanout", criteria.genres, cache, expiry, tc, t, creds, net.genres),
         LAMBDA v :
    LET wrap(e) == NewError(<<Lit("Playlist search failed: ")>> \o e.message)
    IN  IF ~v.ok
        THEN [ok |-> FALSE, value |-> <<>>, error |-> wrap(v.error), cache |-> v.cache,
              expiry |-> v.expiry, tokenCache |-> v.tokenCache, reqs |-> v.reqs,
              ups |-> v.ups, fetched |-> v.fetched]
        ELSE IF ~v.value.isValid
        THEN [ok |-> FALSE, value |-> <<>>, error |-> wrap(InvalidGenresError(v.value)),
              cache |-> v.cache, expiry |-> v.expiry, tokenCache |-> v.tokenCache,
              reqs |-> v.reqs, ups |-> v.ups, fetched |-> v.fetched]
        ELSE With(SearchEach(v.value.validGenres,
                             Ceil(criteria.limit, Len(v.value.validGenres)), v.tokenCache,
                             v.tokenCache, t, creds, net.searches),
                  LAMBDA each :
             LET allPlaylists == MergeResults(<<>>, each.results, criteria.minFollowerCount)
                 sortedPlaylists == Slice(SortByFollowers(allPlaylists), criteria.limit)
             IN  [ok |-> TRUE,
                  value |-> SearchResultOf(sortedPlaylists, SumTotals(each.results), criteria, t),
                  error |-> NewError(<<>>), cache |-> v.cache, expiry |-> v.expiry,
                  tokenCache |-> each.tokenCache, reqs |-> v.reqs \o each.reqs,
                  ups |-> v.ups \o each.ups, fetched |-> v.fetched]))

\* src/server/api/_spotify-api.ts and src/unnamed/part_003; net = [genres, search]
searchPlaylistsByGenres_sdk(i, criteria, cache, expiry, tc, t, creds, net) ==
    With(validateGenres(i, criteria.genres, cache, expiry, tc, t, creds, net.genres),
         LAMBDA v :
    LET client == getSpotifyClient(creds)
        wrap(e) == NewError(createSpotifyErrorResponse(e).message)
        failure(e, reqs, ups) ==
            [ok |-> FALSE, value |-> <<>>, error |-> wrap(e), cache |-> v.cache,
             expiry |-> v.expiry, tokenCache |-> v.tokenCache, reqs |-> v.reqs \o reqs,
             ups |-> v.ups \o ups, fetched |-> v.fetched]
    IN  IF ~v.ok THEN failure(v.error, <<>>, <<>>)
        ELSE IF ~v.value.isValid THEN failure(InvalidGenresError(v.value), <<>>, <<>>)
        ELSE IF ~client.ok THEN failure(client.error, <<>>, <<>>)
        ELSE LET request == SearchRequest(v.value.validGenres, Min(criteria.limit, SdkPageLimit))
             IN  IF ~net.search.ok THEN failure(net.search.error, <<request>>, <<net.search>>)
                 ELSE With(adaptSpotifyPlaylists(net.search.body.playlists.items,
                                                 v.value.validGenres),
                           LAMBDA adaptedPlaylists :
                          IF adaptedPlaylists = None
                          THEN failure(NewError(<<Lit("Cannot read properties of undefined")>>),
                                       <<request>>, <<net.search>>)
                          ELSE LET filteredPlaylists ==
                                       Slice(SortByFollowers(
                                                 FilterByFollowers(adaptedPlaylists[1],
                                                                   criteria.minFollowerCount)),
                                             criteria.limit)
                               IN  [ok |-> TRUE,
                                    value |-> SearchResultOf(filteredPlaylists,
                                                             net.search.body.playlists.total,
                                                             criteria, t),
                                    error |-> NewError(<<>>), cache |-> v.cache,
                                    expiry |-> v.expiry, tokenCache |-> v.tokenCache,
                                    reqs |-> v.reqs \o <<request>>,
                                    ups |-> v.ups \o <<net.search>>, fetched |-> v.fetched]))

searchPlaylistsByGenres(i, criteria, cache, expiry, tc, t, creds, net) ==
    IF i = "fanout"
    THEN searchPlaylistsByGenres_fanout(criteria, cache, expiry, tc, t, creds, net)
    ELSE searchPlaylistsByGenres_sdk(i, criteria, cache, expiry, tc, t, creds, net)


(***************************************************************************)
(* What the upstream may answer.                                           *)
(***************************************************************************)
TokenOk == [ok |-> TRUE, access_token |-> "tok", expires_in |-> 3600, error |-> ""]
TokenFail == [ok |-> FALSE, access_token |-> "", expires_in |-> 0, error |-> "invalid_client"]
\* a token whose lifetime is the 5-minute buffer: its stored expiry is the exchange time
TokenOkShort == [ok |-> TRUE, access_token |-> "short", expires_in |-> 300, error |-> ""]
\* fetch() of the token endpoint rejects
TokenNetworkFail == [ok |-> FALSE, access_token |-> "", expires_in |-> 0, error |-> "fetch failed"]

TokenExchanges == {TokenOk, TokenOkShort, TokenFail, TokenNetworkFail}

Resp(st, body) == [status |-> st, body |-> body]
EmptyBody == [genres |-> None]
GenresBody(list) == [genres |-> Some(list)]

SdkOk(body) == [ok |-> TRUE, body |-> body, error |-> NewError(<<>>)]
SdkFail(error) == [ok |-> FALSE, body |-> EmptyBody, error |-> error]

SdkFailures == {SdkFail(SdkError(429)), SdkFail(SdkError(500)), SdkFail(SdkNetworkError)}

\* the network behaviours one makeSpotifyRequest call can meet, for the success bodies given
RequestNets(bodies) ==
    LET net(e1, r1, e2, r2) == [exch1 |-> e1, resp1 |-> r1, exch2 |-> e2, resp2 |-> r2]
        unused == Resp(200, EmptyBody)
    IN  {net(TokenOk, Resp(200, b), TokenOk, unused) : b \in bodies}
        \cup {net(TokenOk, Resp(401, EmptyBody), TokenOk, Resp(200, b)) : b \in bodies}
        \cup {net(TokenFail, unused, TokenOk, unused),
              net(TokenOk, Resp(401, EmptyBody), TokenFail, unused),
              net(TokenOk, Resp(401, EmptyBody), TokenOk, Resp(401, EmptyBody)),
              net(TokenOk, Resp(429, EmptyBody), TokenOk, unused),
              net(TokenOk, Resp(500, EmptyBody), TokenOk, unused)}

GenreBodies == {GenresBody(list) : list \in SeedLists} \cup {EmptyBody}

NoNet == [sdk |-> SdkFail(SdkNetworkError)]

GenreNets(i) ==
    CASE i = "sdk" -> {[sdk |-> SdkOk(b)] : b \in GenreBodies} \cup {[sdk |-> f] : f \in SdkFailures}
      [] i = "fanout" -> RequestNets(GenreBodies)
      [] i = "curated" -> {NoNet}

\* the clock advances by a millisecond, or to just before a token or genre expiry
ClockSteps == {1, (3600 * 1000) - TokenBufferTime - 1, GenreCacheTTL - 1}

RECURSIVE Repeat(_, _)
Repeat(x, n) == IF n = 0 THEN <<>> ELSE <<x>> \o Repeat(x, n - 1)

LabelPool == {rock, jazz, RockUpper, RockPadded, JazzUpper, unknownGenre, <<>>}

SeqsUpTo(S, n) == UNION {[1..k -> S] : k \in 0..n}

\* genre lists handed to validateGenres: every short list, and lists around the maximum
GenreListInputs ==
    SeqsUpTo(LabelPool, MaxListLen)
    \cup {Repeat(rock, n) : n \in {MaxGenres, MaxGenres + 1}}
    \cup {<<unknownGenre>> \o Repeat(jazz, MaxGenres)}

(***************************************************************************)
(* Search inputs.                                                          *)
(***************************************************************************)
\* the upstream's playlist objects: four well-formed ones (two with equal follower
\* counts), one without owner, one without followers, one without tracks
ItemPool ==
    {Item("p1", Some(500), TRUE, TRUE), Item("p2", Some(1500), TRUE, TRUE),
     Item("p3", Some(2000), TRUE, TRUE), Item("p4", Some(1500), TRUE, TRUE),
     Item("p5", Some(2000), FALSE, TRUE), Item("p6", None, TRUE, TRUE),
     Item("p7", Some(1800), TRUE, FALSE)}

\* how many more matches than it returns the upstream reports in `total`
TotalExtras == {0, 7}

SearchBodies(budget, extra) ==
    {SearchBody(items, Len(items) + extra) : items \in SeqsUpTo(ItemPool, budget)}

\* what one per-genre request of the fan-out can meet
PerGenreNets(budget, extra) ==
    LET net(e1, r1, e2, r2) == [exch1 |-> e1, resp1 |-> r1, exch2 |-> e2, resp2 |-> r2]
        unused == Resp(200, EmptyBody)
    IN  {net(TokenOk, Resp(200, b), TokenOk, unused) : b \in SearchBodies(budget, extra)}
        \cup {net(TokenOk, Resp(429, EmptyBody), TokenOk, unused),
              net(TokenOk, Resp(401, EmptyBody), TokenFail, unused)}

ItemCount(net) ==
    IF net.resp1.status = 200 THEN Len(net.resp1.body.playlists.items) ELSE 0

\* the nets of n per-genre requests whose responses hold at most budget items in all
RECURSIVE NetSeqs(_, _, _)
NetSeqs(n, budget, extra) ==
    IF n = 0 THEN {<<>>}
    ELSE UNION {{<<a>> \o rest : rest \in NetSeqs(n - 1, budget - ItemCount(a), extra)} :
                a \in PerGenreNets(budget, extra)}

SdkSearchNets(extra) ==
    {SdkOk(b) : b \in SearchBodies(MaxItems, extra)} \cup (IF extra = 0 THEN SdkFailures ELSE {})

\* what the genre fetch inside a search can meet
SearchGenreNets(i) ==
    CASE i = "sdk" -> {[sdk |-> SdkOk(GenresBody(<<rock, jazz>>))], [sdk |-> SdkFail(SdkError(500))]}
      [] i = "fanout" ->
            {[exch1 |-> TokenOk, resp1 |-> Resp(200, GenresBody(<<rock, jazz>>)),
              exch2 |-> TokenOk, resp2 |-> Resp(200, EmptyBody)],
             [exch1 |-> TokenOk, resp1 |-> Resp(500, EmptyBody),
              exch2 |-> TokenOk, resp2 |-> Resp(200, EmptyBody)]}
      [] i = "curated" -> {NoNet}

SearchGenreLists ==
    {<<rock>>, <<rock, jazz>>, <<RockPadded, rock>>, <<unknownGenre, rock, RockUpper \o rock>>}

MinFollowerChoices == {0, 1500}
LimitChoices == {1, 50}

CriteriaInputs ==
    [genres : SearchGenreLists, minFollowerCount : MinFollowerChoices, limit : LimitChoices]


(***************************************************************************)
(* State machine.                                                          *)
(***************************************************************************)
OkRet(v) == [ok |-> TRUE, value |-> v, error |-> NewError(<<>>)]

\* the process after its modules are loaded
Constructed ==
    /\ impl \in Impls
    /\ credsConfigured \in BOOLEAN
    /\ now = 0
    /\ ticks = 0
    /\ genreCache = None
    /\ genreCacheExpiry = 0
    /\ tokenCache = None
    /\ op = "idle"
    /\ arg = <<>>
    /\ upstream = <<>>
    /\ requests = <<>>
    /\ ret = OkRet(<<>>)
    /\ lastGenres = None
    /\ tasks = <<>>
    /\ history = [tokenStored |-> None, refreshed |-> None]
    /\ page = [isLoading |-> FALSE, searchResults |-> None]
    /\ searchForm = [isLoading |-> FALSE, error |-> ""]

\* the modes a process is started in
NodeEnvs == {"production", "development"}

\* the library layer does not read NODE_ENV: its runs are taken in production mode
Init == Constructed /\ nodeEnv = "production"

\* the endpoints run in either mode
InitHttp == Constructed /\ nodeEnv \in NodeEnvs

\* the upstream is consulted only when the cache cannot serve the call
FetchNets == IF CacheValid(genreCache, genreCacheExpiry, now) THEN {NoNet} ELSE GenreNets(impl)

\* the caller takes the result of the completed call; the next call can start
Return ==
    /\ op # "idle"
    /\ op' = "idle"
    /\ arg' = <<>>
    /\ upstream' = <<>>
    /\ requests' = <<>>
    /\ ret' = OkRet(<<>>)
    /\ UNCHANGED <<page, searchForm, tasks, history, impl, nodeEnv, credsConfigured, now, ticks, genreCache, genreCacheExpiry,
                   tokenCache, lastGenres>>

\* the state a getAvailableGenres call with outcome g leaves
GetAvailableGenresDone(g) ==
    /\ genreCache' = g.cache
    /\ genreCacheExpiry' = g.expiry
    /\ tokenCache' = g.tokenCache
    /\ op' = "getAvailableGenres"
    /\ arg' = <<>>
    /\ upstream' = g.ups
    /\ requests' = g.reqs
    /\ ret' = [ok |-> g.ok, value |-> g.value, error |-> g.error]
    /\ lastGenres' = IF g.ok THEN Some(g.value) ELSE lastGenres
    /\ UNCHANGED <<page, searchForm, tasks, history, impl, nodeEnv, credsConfigured, now, ticks>>

GetAvailableGenres ==
    /\ op = "idle"
    /\ \E net \in FetchNets :
         GetAvailableGenresDone(getAvailableGenres(impl, genreCache, genreCacheExpiry,
                                                   tokenCache, now, credsConfigured, net))

\* the state a validateGenres(genres) call with outcome v leaves
ValidateGenresDone(genres, v) ==
    /\ genreCache' = v.cache
    /\ genreCacheExpiry' = v.expiry
    /\ tokenCache' = v.tokenCache
    /\ op' = "validateGenres"
    /\ arg' = genres
    /\ upstream' = v.ups
    /\ requests' = v.reqs
    /\ ret' = [ok |-> v.ok, value |-> v.value, error |-> v.error]
    /\ lastGenres' = IF v.fetched # None THEN v.fetched ELSE lastGenres
    /\ UNCHANGED <<page, searchForm, tasks, history, impl, nodeEnv, credsConfigured, now, ticks>>

ValidateGenres ==
    /\ op = "idle"
    /\ \E genres \in GenreListInputs :
         \E net \in (IF Len(genres) \in 1..MaxGenres THEN FetchNets ELSE {NoNet}) :
           ValidateGenresDone(genres, validateGenres(impl, genres, genreCache, genreCacheExpiry,
                                                     tokenCache, now, credsConfigured, net))

clearGenreCache ==
    /\ op = "idle"
    /\ genreCache' = None
    /\ genreCacheExpiry' = 0
    /\ op' = "clearGenreCache"
    /\ arg' = <<>>
    /\ upstream' = <<>>
    /\ requests' = <<>>
    /\ ret' = OkRet(<<>>)
    /\ UNCHANGED <<page, searchForm, tasks, history, impl, nodeEnv, credsConfigured, now, ticks, tokenCache, lastGenres>>

Tick ==
    \E d \in ClockSteps :
        /\ op = "idle"
        /\ ticks < MaxTicks
        /\ now' = now + d
        /\ ticks' = ticks + 1
        /\ UNCHANGED <<page, searchForm, tasks, history, impl, nodeEnv, credsConfigured, genreCache, genreCacheExpiry, tokenCache,
                       op, arg, upstream, requests, ret, lastGenres>>

\* the genre cache over time: reads, clears and the clock
NextCache ==
    \/ GetAvailableGenres
    \/ clearGenreCache
    \/ Tick
    \/ Return

SpecCache == Init /\ [][NextCache]_vars

(***************************************************************************)
(* Token provider and request wrapper called one after the other.          *)
(***************************************************************************)
\* what one makeSpotifyRequest call can meet at the token endpoint and at the API
TokenRequestNets ==
    [exch1 : TokenExchanges,
     resp1 : {Resp(200, GenresBody(<<rock, jazz>>)), Resp(401, EmptyBody), Resp(404, EmptyBody),
              Resp(429, EmptyBody), Resp(500, EmptyBody)},
     exch2 : TokenExchanges,
     resp2 : {Resp(200, GenresBody(<<rock, jazz>>)), Resp(401, EmptyBody), Resp(500, EmptyBody)}]

\* the state a getSpotifyAccessToken call with outcome r leaves
GetSpotifyAccessTokenDone(exch, r) ==
    /\ tokenCache' = r.tokenCache
    /\ op' = "getSpotifyAccessToken"
    /\ arg' = <<>>
    /\ upstream' = IF r.reqs = <<>> THEN <<>> ELSE <<exch>>
    /\ requests' = r.reqs
    /\ ret' = [ok |-> r.ok, value |-> r.token, error |-> r.error]
    /\ UNCHANGED <<page, searchForm, tasks, history, impl, nodeEnv, credsConfigured, now, ticks, genreCache, genreCacheExpiry, lastGenres>>

GetSpotifyAccessToken ==
    /\ op = "idle"
    /\ \E exch \in TokenExchanges :
         GetSpotifyAccessTokenDone(exch,
             getSpotifyAccessToken(tokenCache, now, credsConfigured, exch))

\* the state a makeSpotifyRequest(req) call with outcome r leaves
MakeSpotifyRequestDone(req, r) ==
    /\ tokenCache' = r.tokenCache
    /\ op' = "makeSpotifyRequest"
    /\ arg' = req
    /\ upstream' = r.ups
    /\ requests' = r.reqs
    /\ ret' = [ok |-> r.ok, value |-> r.body, error |-> r.error]
    /\ UNCHANGED <<page, searchForm, tasks, history, impl, nodeEnv, credsConfigured, now, ticks, genreCache, genreCacheExpiry, lastGenres>>

MakeSpotifyRequest ==
    /\ op = "idle"
    /\ \E net \in TokenRequestNets :
         MakeSpotifyRequestDone(GenreSeedsRequest,
             makeSpotifyRequest(tokenCache, now, credsConfigured, GenreSeedsRequest, net))

ClearTokenCache ==
    /\ op = "idle"
    /\ tokenCache' = clearTokenCache(tokenCache)
    /\ op' = "clearTokenCache"
    /\ arg' = <<>>
    /\ upstream' = <<>>
    /\ requests' = <<>>
    /\ ret' = OkRet(<<>>)
    /\ UNCHANGED <<page, searchForm, tasks, history, impl, nodeEnv, credsConfigured, now, ticks, genreCache, genreCacheExpiry, lastGenres>>

\* getSpotifyClient of the SDK layer reads the same two environment variables
GetSpotifyClient ==
    /\ op = "idle"
    /\ op' = "getSpotifyClient"
    /\ arg' = <<>>
    /\ upstream' = <<>>
    /\ requests' = <<>>
    /\ ret' = [ok |-> getSpotifyClient(credsConfigured).ok, value |-> <<>>,
               error |-> getSpotifyClient(credsConfigured).error]
    /\ UNCHANGED <<page, searchForm, tasks, history, impl, nodeEnv, credsConfigured, now, ticks, genreCache, genreCacheExpiry,
                   tokenCache, lastGenres>>

\* process.env.SPOTIFY_CLIENT_ID / SPOTIFY_CLIENT_SECRET is set or deleted between calls
SetCredentials ==
    /\ op = "idle"
    /\ credsConfigured' = ~credsConfigured
    /\ UNCHANGED <<page, searchForm, tasks, history, impl, nodeEnv, now, ticks, genreCache, genreCacheExpiry, tokenCache,
                   op, arg, upstream, requests, ret, lastGenres>>

\* part_005 is the token layer of the fan-out variant
InitToken == Init /\ impl = "fanout"

NextToken ==
    \/ GetSpotifyAccessToken
    \/ MakeSpotifyRequest
    \/ GetSpotifyClient
    \/ ClearTokenCache
    \/ SetCredentials
    \/ Tick
    \/ Return

SpecToken == InitToken /\ [][NextToken]_vars

\* genre validation against a cold or warm cache
NextValidate ==
    \/ ValidateGenres
    \/ clearGenreCache
    \/ Return

SpecValidate == Init /\ [][NextValidate]_vars


\* what the search requests of a call can meet, given the outcome v of its validation
SearchNets(i, creds, gnet, v) ==
    IF ~(v.ok /\ v.value.isValid /\ creds) THEN {[genres |-> gnet]}
    ELSE IF i = "fanout"
    THEN UNION {{[genres |-> gnet, searches |-> ns] :
                   ns \in NetSeqs(Len(v.value.validGenres), MaxItems, extra)} :
                extra \in TotalExtras}
    ELSE UNION {{[genres |-> gnet, search |-> n] : n \in SdkSearchNets(extra)} :
                extra \in TotalExtras}

\* the state a searchPlaylistsByGenres(criteria) call with outcome r leaves
SearchPlaylistsByGenresDone(criteria, r) ==
    /\ genreCache' = r.cache
    /\ genreCacheExpiry' = r.expiry
    /\ tokenCache' = r.tokenCache
    /\ op' = "searchPlaylistsByGenres"
    /\ arg' = criteria
    /\ upstream' = r.ups
    /\ requests' = r.reqs
    /\ ret' = [ok |-> r.ok, value |-> r.value, error |-> r.error]
    /\ lastGenres' = IF r.fetched # None THEN r.fetched ELSE lastGenres
    /\ UNCHANGED <<page, searchForm, tasks, history, impl, nodeEnv, credsConfigured, now, ticks>>

SearchPlaylistsByGenres ==
    /\ op = "idle"
    /\ \E criteria \in CriteriaInputs :
         \E gnet \in (IF CacheValid(genreCache, genreCacheExpiry, now)
                      THEN {NoNet} ELSE SearchGenreNets(impl)) :
           \E net \in SearchNets(impl, credsConfigured, gnet,
                                 validateGenres(impl, criteria.genres, genreCache,
                                                genreCacheExpiry, tokenCache, now,
                                                credsConfigured, gnet)) :
             SearchPlaylistsByGenresDone(criteria,
                 searchPlaylistsByGenres(impl, criteria, genreCache, genreCacheExpiry,
                                         tokenCache, now, credsConfigured, net))

\* searches against a cold or warm genre cache
NextSearch ==
    \/ SearchPlaylistsByGenres
    \/ clearGenreCache
    \/ Return

SpecSearch == Init /\ [][NextSearch]_vars


(***************************************************************************)
(* POST /search/playlists.  A request body is a JSON value; a value that   *)
(* is no object has no `genres`, `minFollowerCount` or `limit`.            *)
(***************************************************************************)
JsUndefined == [type |-> "undefined"]
JsNull == [type |-> "null"]
JsNumber(n) == [type |-> "number", number |-> n]
JsString(cs) == [type |-> "string", chars |-> cs]
JsArray(items) == [type |-> "array", items |-> items]
JsObject(genres, minFollowerCount, limit) ==
    [type |-> "object", genres |-> genres, minFollowerCount |-> minFollowerCount,
     limit |-> limit]

\* typeof: null and arrays are objects
Typeof(v) == IF v.type \in {"null", "array", "object"} THEN "object" ELSE v.type

\* request.field, for a request that is neither null nor undefined
Property(v, field) == IF v.type = "object" THEN v[field] ELSE JsUndefined

\* typeof request === 'object'
IsObject(request) == Typeof(request) = "object"

\* validateSearchRequest: reading request.genres of null throws a TypeError
validateSearchRequest(request) ==
    IF ~IsObject(request) THEN [threw |-> FALSE, value |-> FALSE]
    ELSE IF request.type = "null" THEN [threw |-> TRUE, value |-> FALSE]
    ELSE With(Property(request, "genres"), LAMBDA genres :
         With(Property(request, "minFollowerCount"), LAMBDA minFollowerCount :
         With(Property(request, "limit"), LAMBDA limit :
            [threw |-> FALSE,
             value |-> /\ genres.type = "array"
                       /\ Len(genres.items) >= 1
                       /\ Len(genres.items) <= MaxGenres
                       /\ \A k \in 1..Len(genres.items) :
                             /\ Typeof(genres.items[k]) = "string"
                             /\ Len(genres.items[k].chars) > 0
                       /\ Typeof(minFollowerCount) = "number"
                       /\ minFollowerCount.number >= 0
                       /\ \/ limit.type = "undefined"
                          \/ /\ Typeof(limit) = "number"
                             /\ limit.number >= 1
                             /\ limit.number <= SdkPageLimit])))

NullTypeError == NewError(<<Lit("Cannot read properties of null (reading 'genres')")>>)

\* the literals of the error messages that contain the text looked for
LitsIncluding(text) ==
    CASE text = "rate limit" -> {"Spotify API rate limit exceeded"}
      [] text = "429" -> {"429"}
      [] text = "Invalid genres" -> {"Invalid genres: "}
      [] text = "authentication" ->
            {"Spotify authentication failed. Please check configuration.",
             "Spotify authentication failed: "}
      [] text = "credentials" ->
            {"Spotify API credentials not configured. Please set SPOTIFY_CLIENT_ID and SPOTIFY_CLIENT_SECRET environment variables.",
             "API credentials may be invalid or expired"}

\* error.message.includes(text); no genre label of the model contains a text looked for
MessageIncludes(message, text) ==
    \E p \in 1..Len(message) : message[p].lit \in LitsIncluding(text)

HttpResponse(st, body) == [status |-> st, body |-> body]
ErrorBody(code, message) == [error |-> code, message |-> message]

\* an error body with a details property; details: undefined is None
ErrorBodyWithDetails(code, message, details) ==
    [error |-> code, message |-> message, details |-> details]

ShapeErrorResponse(body) ==
    HttpResponse(400, ErrorBodyWithDetails("VALIDATION_ERROR",
        <<Lit("Invalid request format. Required: genres (array, 1-10 items), minFollowerCount (number >= 0), optional: limit (number 1-50)")>>,
        Some([received |-> body])))

\* a details property that is attached in every mode
DevDetails_Always(env, error) == Some(error.message)

\* details: the error's message in development mode, undefined otherwise
DevDetails(env, error) == IF env = "development" THEN Some(error.message) ELSE None

InvalidGenresResponse(error) ==
    HttpResponse(400, ErrorBody("INVALID_GENRES", error.message))

\* the catch block of the handler
ErrorResponse(env, error) ==
    IF MessageIncludes(error.message, "rate limit") \/ MessageIncludes(error.message, "429")
    THEN HttpResponse(429, ErrorBody("RATE_LIMIT_ERROR",
            <<Lit("Too many requests. Please wait a moment and try again.")>>))
    ELSE IF MessageIncludes(error.message, "Invalid genres")
    THEN InvalidGenresResponse(error)
    ELSE IF MessageIncludes(error.message, "authentication")
            \/ MessageIncludes(error.message, "credentials")
    THEN HttpResponse(500, ErrorBody("SPOTIFY_AUTH_ERROR",
            <<Lit("Spotify service authentication failed. Please try again later.")>>))
    ELSE HttpResponse(500, ErrorBodyWithDetails("SEARCH_ERROR",
            <<Lit("Unable to search playlists. Please try again later.")>>,
            DevDetails(env, error)))

\* searchCriteria of a validated body: limit defaults to 50
SearchCriteriaOf(body) ==
    [genres |-> [k \in 1..Len(body.genres.items) |-> body.genres.items[k].chars],
     minFollowerCount |-> body.minFollowerCount.number,
     limit |-> IF body.limit.type = "undefined" \/ body.limit.number = 0
               THEN SdkPageLimit ELSE body.limit.number]

\* the checks the handler repeats on searchCriteria
AdditionalValidation(criteria) ==
    IF Len(criteria.genres) = 0
    THEN Some(<<Lit("At least one genre must be specified")>>)
    ELSE IF Len(criteria.genres) > MaxGenres
    THEN Some(<<Lit("Maximum of 10 genres allowed")>>)
    ELSE IF criteria.minFollowerCount < 0
    THEN Some(<<Lit("Minimum follower count cannot be negative")>>)
    ELSE IF criteria.limit < 1 \/ criteria.limit > SdkPageLimit
    THEN Some(<<Lit("Limit must be between 1 and 50")>>)
    ELSE None

\* the handler of POST /search/playlists: the response it sends, the state it leaves
\* and the searchPlaylistsByGenres calls it made
postSearchPlaylists(i, env, body, cache, expiry, tc, t, creds, net) ==
    LET untouched(response) ==
            [cache |-> cache, expiry |-> expiry, tokenCache |-> tc, ups |-> <<>>,
             reqs |-> <<>>, fetched |-> None, response |-> response, calls |-> <<>>]
    IN  With(validateSearchRequest(body), LAMBDA shape :
        IF shape.threw THEN untouched(ErrorResponse(env, NullTypeError))
        ELSE IF ~shape.value THEN untouched(ShapeErrorResponse(body))
        ELSE With(SearchCriteriaOf(body), LAMBDA criteria :
             With(AdditionalValidation(criteria), LAMBDA refused :
             IF refused # None
             THEN untouched(HttpResponse(400, ErrorBody("VALIDATION_ERROR", refused[1])))
             ELSE With(searchPlaylistsByGenres(i, criteria, cache, expiry, tc, t, creds, net),
                       LAMBDA r :
                  [cache |-> r.cache, expiry |-> r.expiry, tokenCache |-> r.tokenCache,
                   ups |-> r.ups, reqs |-> r.reqs, fetched |-> r.fetched,
                   response |-> IF r.ok THEN HttpResponse(200, r.value)
                                ELSE ErrorResponse(env, r.error),
                   calls |-> <<criteria>>]))))

\* request bodies that pass the shape check
JsStrings(labels) == JsArray([k \in 1..Len(labels) |-> JsString(labels[k])])
LimitInputs == {JsUndefined, JsNumber(1)}
MinFollowerInputs == {0}

WellFormedBodies ==
    {JsObject(JsStrings(genres), JsNumber(minimum), limit) :
        genres \in SearchGenreLists, minimum \in MinFollowerInputs, limit \in LimitInputs}

\* request bodies that fail it, one for each way of failing
MalformedBodies ==
    LET good == JsStrings(<<rock>>)
        eleven == JsStrings([k \in 1..(MaxGenres + 1) |-> rock])
    IN  {JsUndefined, JsNull, JsString(rock), JsNumber(1), JsArray(<<>>),
         JsObject(JsUndefined, JsNumber(0), JsUndefined),
         JsObject(JsString(rock), JsNumber(0), JsUndefined),
         JsObject(JsArray(<<>>), JsNumber(0), JsUndefined),
         JsObject(eleven, JsNumber(0), JsUndefined),
         JsObject(JsArray(<<JsString(rock), JsString(<<>>)>>), JsNumber(0), JsUndefined),
         JsObject(JsArray(<<JsNumber(1)>>), JsNumber(0), JsUndefined),
         JsObject(good, JsUndefined, JsUndefined),
         JsObject(good, JsString(rock), JsUndefined),
         JsObject(good, JsNumber(0 - 1), JsUndefined),
         JsObject(good, JsNumber(0), JsNull),
         JsObject(good, JsNumber(0), JsString(rock)),
         JsObject(good, JsNumber(0), JsNumber(0)),
         JsObject(good, JsNumber(0), JsNumber(SdkPageLimit + 1))}

HttpBodies == WellFormedBodies \cup MalformedBodies

\* the state a POST /search/playlists request answered with r leaves
PostSearchPlaylistsDone(body, r) ==
    /\ genreCache' = r.cache
    /\ genreCacheExpiry' = r.expiry
    /\ tokenCache' = r.tokenCache
    /\ op' = "postSearchPlaylists"
    /\ arg' = body
    /\ upstream' = r.ups
    /\ requests' = r.reqs
    /\ ret' = [ok |-> TRUE, value |-> r.response, error |-> NewError(<<>>),
               calls |-> r.calls]
    /\ lastGenres' = IF r.fetched # None THEN r.fetched ELSE lastGenres
    /\ UNCHANGED <<page, searchForm, tasks, history, impl, nodeEnv, credsConfigured, now, ticks>>

PostSearchPlaylists ==
    /\ op = "idle"
    /\ \/ \E body \in MalformedBodies :
            PostSearchPlaylistsDone(body,
                postSearchPlaylists(impl, nodeEnv, body, genreCache, genreCacheExpiry,
                                    tokenCache, now, credsConfigured, [genres |-> NoNet]))
       \/ \E body \in WellFormedBodies :
            \E gnet \in (IF CacheValid(genreCache, genreCacheExpiry, now)
                         THEN {NoNet} ELSE SearchGenreNets(impl)) :
              \E net \in SearchNets(impl, credsConfigured, gnet,
                                    validateGenres(impl, SearchCriteriaOf(body).genres,
                                                   genreCache, genreCacheExpiry, tokenCache,
                                                   now, credsConfigured, gnet)) :
                PostSearchPlaylistsDone(body,
                    postSearchPlaylists(impl, nodeEnv, body, genreCache, genreCacheExpiry,
                                        tokenCache, now, credsConfigured, net))

\* the handler of GET /genres
getGenres(i, env, cache, expiry, tc, t, creds, net) ==
    With(getAvailableGenres(i, cache, expiry, tc, t, creds, net), LAMBDA g :
        [cache |-> g.cache, expiry |-> g.expiry, tokenCache |-> g.tokenCache,
         ups |-> g.ups, reqs |-> g.reqs,
         fetched |-> IF g.ok THEN Some(g.value) ELSE None,
         response |-> IF g.ok THEN HttpResponse(200, [genres |-> g.value])
                      ELSE HttpResponse(500, ErrorBodyWithDetails("SPOTIFY_API_ERROR",
                              <<Lit("Unable to fetch available genres. Please try again later.")>>,
                              DevDetails(env, g.error)))])

\* the state a GET /genres request answered with r leaves
GetGenresDone(r) ==
    /\ genreCache' = r.cache
    /\ genreCacheExpiry' = r.expiry
    /\ tokenCache' = r.tokenCache
    /\ op' = "getGenres"
    /\ arg' = <<>>
    /\ upstream' = r.ups
    /\ requests' = r.reqs
    /\ ret' = [ok |-> TRUE, value |-> r.response, error |-> NewError(<<>>), calls |-> <<>>]
    /\ lastGenres' = IF r.fetched # None THEN r.fetched ELSE lastGenres
    /\ UNCHANGED <<page, searchForm, tasks, history, impl, nodeEnv, credsConfigured, now, ticks>>

GetGenres ==
    /\ op = "idle"
    /\ \E gnet \in (IF CacheValid(genreCache, genreCacheExpiry, now)
                    THEN {NoNet} ELSE SearchGenreNets(impl)) :
         GetGenresDone(getGenres(impl, nodeEnv, genreCache, genreCacheExpiry, tokenCache,
                                 now, credsConfigured, gnet))

\* requests to the endpoints against a cold or warm genre cache
NextHttp ==
    \/ PostSearchPlaylists
    \/ GetGenres
    \/ clearGenreCache
    \/ Return

SpecHttp == InitHttp /\ [][NextHttp]_vars


(***************************************************************************)
(* mapSpotifyError applied to the error objects a caller can hand it.      *)
(***************************************************************************)
\* the largest status an error object carries
MaxStatus == 600

ErrorMessages == {<<Lit("sdk request failed")>>, <<Lit("fetch failed")>>}

\* error objects without status, with status 0 and with every status up to MaxStatus
ErrorInputs ==
    {NewError(msg) : msg \in ErrorMessages}
        \cup {[status |-> Some(st), message |-> msg] : st \in 0..MaxStatus, msg \in ErrorMessages}

MapSpotifyError ==
    /\ op = "idle"
    /\ \E error \in ErrorInputs :
         /\ op' = "mapSpotifyError"
         /\ arg' = error
         /\ ret' = [ok |-> TRUE, value |-> mapSpotifyError(error), error |-> NewError(<<>>)]
    /\ upstream' = <<>>
    /\ requests' = <<>>
    /\ UNCHANGED <<page, searchForm, tasks, history, impl, nodeEnv, credsConfigured, now, ticks, genreCache, genreCacheExpiry,
                   tokenCache, lastGenres>>

NextMap ==
    \/ MapSpotifyError
    \/ Return

SpecMap == Init /\ [][NextMap]_vars


(***************************************************************************)
(* The two search strategies side by side: the same criteria, the same     *)
(* available genres, and an upstream whose answer to the combined query    *)
(* holds the playlists of its per-genre answers.                           *)
(***************************************************************************)
\* the genre list both strategies find in their cache
WarmGenres == Some(SortStrings(<<rock, jazz>>))

\* the playlists of the per-genre answers, each once, in the order of the answers
RECURSIVE UnionOfAnswers(_, _)
UnionOfAnswers(seen, nets) ==
    IF nets = <<>> THEN seen
    ELSE UnionOfAnswers(
             seen \o SelectSeq(Head(nets).resp1.body.playlists.items,
                               LAMBDA item : \A k \in 1..Len(seen) : seen[k].id # item.id),
             Tail(nets))

\* per-genre answers that all succeed, with pairwise distinct playlists in each
AnsweredNetSeqs(n) ==
    {ns \in NetSeqs(n, MaxItems, 0) :
        \A k \in 1..Len(ns) :
            /\ ns[k].resp1.status = 200
            /\ \A a, b \in 1..Len(ns[k].resp1.body.playlists.items) :
                  a # b => ns[k].resp1.body.playlists.items[a].id
                             # ns[k].resp1.body.playlists.items[b].id}

\* the outcome of one strategy, as its caller sees it
OutcomeOf(r) == [ok |-> r.ok, value |-> r.value, error |-> r.error]

SearchBothStrategies ==
    /\ op = "idle"
    /\ \E criteria \in CriteriaInputs :
         \E ns \in AnsweredNetSeqs(Len(criteria.genres)) :
            With(UnionOfAnswers(<<>>, ns), LAMBDA union :
                /\ op' = "searchBothStrategies"
                /\ arg' = criteria
                /\ upstream' = [k \in 1..Len(ns) |-> ns[k].resp1]
                /\ ret' = [ok |-> TRUE, error |-> NewError(<<>>),
                           value |->
                             [combined |-> OutcomeOf(searchPlaylistsByGenres(
                                  impl, criteria, WarmGenres, now + GenreCacheTTL, tokenCache,
                                  now, credsConfigured,
                                  [genres |-> NoNet,
                                   search |-> SdkOk(SearchBody(union, Len(union)))])),
                              fanout |-> OutcomeOf(searchPlaylistsByGenres(
                                  "fanout", criteria, WarmGenres, now + GenreCacheTTL,
                                  tokenCache, now, credsConfigured,
                                  [genres |-> NoNet, searches |-> ns]))]])
    /\ requests' = <<>>
    /\ UNCHANGED <<page, searchForm, tasks, history, impl, nodeEnv, credsConfigured, now, ticks, genreCache, genreCacheExpiry,
                   tokenCache, lastGenres>>

\* the SDK-based strategy is the one deployed
InitStrategies == Init /\ impl = "sdk"

NextStrategies ==
    \/ SearchBothStrategies
    \/ Return

SpecStrategies == InitStrategies /\ [][NextStrategies]_vars


(***************************************************************************)
(* Concurrent calls.  An async function runs without interruption from one *)
(* await to the next; a call is a task that stands at its pending await,   *)
(* and a step is the arrival of the response it waits for together with    *)
(* the code that runs until its next await.                                *)
(***************************************************************************)
\* how many calls are in progress or uncollected at a time
MaxTasks == 2

NewTask(kind) ==
    [kind |-> kind, pc |-> "called", token |-> "", hit |-> FALSE, retry |-> FALSE,
     first |-> 0, sent |-> 0, exchanged |-> 0, fetched |-> FALSE, ok |-> FALSE,
     value |-> <<>>]

Settled(task, ok, value) == [task EXCEPT !.pc = "done", !.ok = ok, !.value = value]

\* part_005:17-26 run for a task: the cache test and the configuration test of
\* getSpotifyAccessToken, up to the fetch of the token endpoint
BeginToken(task, tc, t, creds) ==
    IF tc # None /\ tc[1].expiresAt > t
    THEN IF task.kind = "getSpotifyAccessToken"
         THEN Settled([task EXCEPT !.hit = TRUE, !.token = tc[1].token], TRUE, tc[1].token)
         ELSE [task EXCEPT !.hit = ~task.retry, !.token = tc[1].token, !.pc = "requesting",
                           !.sent = @ + 1]
    ELSE IF MissingCredentials(creds) THEN Settled(task, FALSE, <<>>)
    ELSE [task EXCEPT !.pc = "exchanging", !.exchanged = @ + 1]

\* part_005:39-55 run for a task when the token endpoint has answered
EndToken(task, t, exch) ==
    IF ~exch.ok THEN Settled(task, FALSE, <<>>)
    ELSE IF task.kind = "getSpotifyAccessToken"
    THEN Settled([task EXCEPT !.token = exch.access_token, !.fetched = TRUE], TRUE,
                 exch.access_token)
    ELSE [task EXCEPT !.token = exch.access_token, !.fetched = TRUE, !.pc = "requesting",
                      !.sent = @ + 1]

\* the calls in progress belong to the token layer (part_005)
TokenLayerOnly ==
    \A k \in 1..Len(tasks) : tasks[k].kind \in {"getSpotifyAccessToken", "makeSpotifyRequest"}

\* the calls in progress are getAvailableGenres calls of the SDK variant
GenreLayerOnly == \A k \in 1..Len(tasks) : tasks[k].kind = "getAvailableGenres"

Quiet == <<impl, nodeEnv, credsConfigured, now, ticks, op, arg, upstream, requests, ret,
           lastGenres, page, searchForm>>

CallGetSpotifyAccessToken ==
    /\ Len(tasks) < MaxTasks
    /\ TokenLayerOnly
    /\ tasks' = Append(tasks, BeginToken(NewTask("getSpotifyAccessToken"), tokenCache, now,
                                         credsConfigured))
    /\ UNCHANGED <<Quiet, history, tokenCache, genreCache, genreCacheExpiry>>

CallMakeSpotifyRequest ==
    /\ Len(tasks) < MaxTasks
    /\ TokenLayerOnly
    /\ tasks' = Append(tasks, BeginToken(NewTask("makeSpotifyRequest"), tokenCache, now,
                                         credsConfigured))
    /\ UNCHANGED <<Quiet, history, tokenCache, genreCache, genreCacheExpiry>>

\* the token endpoint answers a pending exchange
TokenResponse ==
    \E i \in 1..Len(tasks) : \E exch \in TokenExchanges :
        /\ tasks[i].pc = "exchanging"
        /\ tasks' = [tasks EXCEPT ![i] = EndToken(tasks[i], now, exch)]
        /\ tokenCache' = IF exch.ok
                         THEN Some([token |-> exch.access_token,
                                    expiresAt |-> TokenExpiry(now, exch.expires_in)])
                         ELSE TokenCacheOnError(tokenCache)
        /\ history' = IF exch.ok THEN [history EXCEPT !.tokenStored = tokenCache']
                      ELSE history
        /\ UNCHANGED <<Quiet, genreCache, genreCacheExpiry>>

\* the statuses the API answers a request with
ApiStatuses == {200, 401, 500}

\* response.status === 401 && tokenCache
ShouldReauthenticate(status, tc) == status = 401 /\ tc # None

\* the API answers a pending request of makeSpotifyRequest
ApiResponse ==
    \E i \in 1..Len(tasks) : \E status \in ApiStatuses :
        /\ tasks[i].pc = "requesting"
        /\ LET task == IF tasks[i].retry THEN tasks[i] ELSE [tasks[i] EXCEPT !.first = status]
           IN  IF status = 200
               THEN /\ tasks' = [tasks EXCEPT ![i] = Settled(task, TRUE, <<>>)]
                    /\ UNCHANGED <<tokenCache, history>>
               ELSE IF ~task.retry /\ ShouldReauthenticate(status, tokenCache)
               THEN /\ tokenCache' = clearTokenCache(tokenCache)
                    /\ history' = [history EXCEPT !.tokenStored = None]
                    /\ tasks' = [tasks EXCEPT ![i] =
                                    BeginToken([task EXCEPT !.retry = TRUE], tokenCache', now,
                                               credsConfigured)]
               ELSE /\ tasks' = [tasks EXCEPT ![i] = Settled(task, FALSE, <<>>)]
                    /\ UNCHANGED <<tokenCache, history>>
        /\ UNCHANGED <<Quiet, genreCache, genreCacheExpiry>>

\* clearTokenCache() called while other calls are in progress
CallClearTokenCache ==
    /\ TokenLayerOnly
    /\ tokenCache # None
    /\ tokenCache' = clearTokenCache(tokenCache)
    /\ history' = [history EXCEPT !.tokenStored = None]
    /\ UNCHANGED <<Quiet, tasks, genreCache, genreCacheExpiry>>

\* _spotify-api.ts:26-32 run for a task: the cache test and getSpotifyClient()
CallGetAvailableGenres ==
    /\ Len(tasks) < MaxTasks
    /\ GenreLayerOnly
    /\ LET task == NewTask("getAvailableGenres")
       IN  tasks' = Append(tasks,
                IF CacheValid(genreCache, genreCacheExpiry, now)
                THEN Settled([task EXCEPT !.hit = TRUE], TRUE, genreCache[1])
                ELSE IF ~getSpotifyClient(credsConfigured).ok
                THEN IF HasCachedData(genreCache) THEN Settled(task, TRUE, genreCache[1])
                     ELSE Settled(task, FALSE, <<>>)
                ELSE [task EXCEPT !.pc = "fetching", !.sent = 1])
    /\ UNCHANGED <<Quiet, history, tokenCache, genreCache, genreCacheExpiry>>

\* a refresh that leaves a filled cache alone
StoreGenres_KeepFirst(cache, expiry, sorted, t) ==
    IF cache # None THEN [cache |-> cache, expiry |-> expiry]
    ELSE [cache |-> Some(sorted), expiry |-> t + GenreCacheTTL]

\* genreCache = genres.sort(); genreCacheExpiry = Date.now() + (60 * 60 * 1000)
StoreGenres(cache, expiry, sorted, t) == [cache |-> Some(sorted), expiry |-> t + GenreCacheTTL]

\* what client.recommendations.genreSeeds() settles with
SeedAnswers == {SdkOk(GenresBody(list)) : list \in SeedLists} \cup {SdkFail(SdkError(500))}

\* _spotify-api.ts:33-48 run for a task when genreSeeds() has settled
GenresResponse ==
    \E i \in 1..Len(tasks) : \E answer \in SeedAnswers :
        /\ tasks[i].pc = "fetching"
        /\ IF answer.ok
           THEN With(SortStrings(adaptSpotifyGenres(answer.body)), LAMBDA sorted :
                    /\ genreCache' = StoreGenres(genreCache, genreCacheExpiry, sorted, now).cache
                    /\ genreCacheExpiry' =
                           StoreGenres(genreCache, genreCacheExpiry, sorted, now).expiry
                    /\ history' = [history EXCEPT !.refreshed =
                                      Some([value |-> sorted, expiry |-> now + GenreCacheTTL])]
                    /\ tasks' = [tasks EXCEPT ![i] =
                                    Settled([tasks[i] EXCEPT !.fetched = TRUE], TRUE,
                                            genreCache'[1])])
           ELSE /\ tasks' = [tasks EXCEPT ![i] =
                                IF HasCachedData(genreCache)
                                THEN Settled(tasks[i], TRUE, genreCache[1])
                                ELSE Settled(tasks[i], FALSE, <<>>)]
                /\ UNCHANGED <<genreCache, genreCacheExpiry, history>>
        /\ UNCHANGED <<Quiet, tokenCache>>

\* the callers take the results of the settled calls
Collect ==
    /\ tasks # <<>>
    /\ \A k \in 1..Len(tasks) : tasks[k].pc = "done"
    /\ tasks' = <<>>
    /\ UNCHANGED <<Quiet, history, tokenCache, genreCache, genreCacheExpiry>>

\* one step outlives a token cached at the step's start, two steps a genre list
ElapseSteps == {GenreCacheTTL - 1}

\* the clock advances while calls are pending
Elapse ==
    \E d \in ElapseSteps :
        /\ ticks < MaxTicks
        /\ now' = now + d
        /\ ticks' = ticks + 1
        /\ UNCHANGED <<page, searchForm, impl, nodeEnv, credsConfigured, op, arg, upstream, requests, ret,
                       lastGenres, tasks, history, tokenCache, genreCache, genreCacheExpiry>>

NextRace ==
    \/ CallGetSpotifyAccessToken
    \/ CallMakeSpotifyRequest
    \/ TokenResponse
    \/ ApiResponse
    \/ CallClearTokenCache
    \/ CallGetAvailableGenres
    \/ GenresResponse
    \/ Collect
    \/ Elapse

\* the SDK variant caches genres, part_005 caches tokens; both run in one process
InitRace == Init /\ impl = "sdk"

SpecRace == InitRace /\ [][NextRace]_vars


(***************************************************************************)
(* The fan-out of one search, request by request.  Every per-genre call    *)
(* gets the answers the upstream has for it (its net); what varies is the  *)
(* order in which the answers arrive.                                      *)
(***************************************************************************)
\* what one per-genre request can meet: the nets of the sequential model, and a
\* first response of 401 followed by a successful exchange and retry
FanoutNets ==
    PerGenreNets(1, 0)
    \cup {[exch1 |-> TokenOk, resp1 |-> Resp(401, EmptyBody), exch2 |-> TokenOk,
           resp2 |-> Resp(200, SearchBody(<<item>>, 1))] :
          item \in {x \in ItemPool : x.id \in {"p2", "p3"}}}

FanoutGenreLists == {<<rock>>, <<rock, jazz>>, <<jazz, rock>>, <<unknownGenre, rock>>}

FanoutCriteria == [genres : FanoutGenreLists, minFollowerCount : {0}, limit : LimitChoices]

\* a token issued at time 0 with the usual lifetime
WarmToken == Some([token |-> "tok", expiresAt |-> TokenExpiry(0, 3600)])

\* a per-genre call: searchPlaylistsByGenre up to the first await inside
\* makeSpotifyRequest and getSpotifyAccessToken
SpawnGenre(genre, net, tc, t, creds) ==
    LET task == [kind |-> "searchPlaylistsByGenre", pc |-> "called", genre |-> genre,
                 net |-> net, retry |-> FALSE, first |-> 0, ok |-> FALSE,
                 body |-> EmptyBody]
    IN  IF tc # None /\ tc[1].expiresAt > t THEN [task EXCEPT !.pc = "requesting"]
        ELSE IF MissingCredentials(creds) THEN [task EXCEPT !.pc = "done"]
        ELSE [task EXCEPT !.pc = "exchanging"]

\* part_002:174-185: the value searchPlaylistsByGenre resolves with
GenreResultOf(task) ==
    With(IF task.ok THEN Filter(IsComplete, task.body.playlists.items) ELSE <<>>,
         LAMBDA complete :
    LET failed == ~task.ok \/ \E i \in 1..Len(complete) : MapThrows(complete[i])
    IN  [playlists |-> IF failed THEN PlaylistsOnFailure(complete)
                       ELSE Map(mapSpotifyPlaylistToInternal, complete),
         total |-> IF failed THEN 0 ELSE task.body.playlists.total,
         failed |-> failed])

\* part_002:130-152: what follows await Promise.all(searchPromises)
CombineResults(searchResults, criteria, t) ==
    LET allPlaylists == MergeResults(<<>>, searchResults, criteria.minFollowerCount)
        sortedPlaylists == Slice(SortByFollowers(allPlaylists), criteria.limit)
    IN  SearchResultOf(sortedPlaylists, SumTotals(searchResults), criteria, t)

StartSearchDone(criteria, nets, v) ==
    IF ~v.value.isValid
    THEN /\ op' = "searchPlaylistsByGenres"
         /\ ret' = [ok |-> FALSE, value |-> <<>>,
                    error |-> NewError(<<Lit("Playlist search failed: ")>>
                                       \o InvalidGenresError(v.value).message)]
         /\ arg' = [criteria |-> criteria, nets |-> <<>>, tokenCache |-> tokenCache]
         /\ UNCHANGED tasks
    ELSE /\ op' = "searching"
         /\ \E chosen \in {c \in nets : Len(c) = Len(v.value.validGenres)} :
                /\ arg' = [criteria |-> criteria, nets |-> chosen, tokenCache |-> tokenCache]
                /\ tasks' = [k \in 1..Len(chosen) |->
                                SpawnGenre(v.value.validGenres[k], chosen[k], tokenCache, now,
                                           credsConfigured)]
         /\ UNCHANGED ret

\* part_002:111-124: validation against the cached genre list, then one call per genre
StartSearch ==
    /\ op = "idle"
    /\ tasks = <<>>
    /\ \E criteria \in FanoutCriteria :
           StartSearchDone(criteria, [1..1 -> FanoutNets] \cup [1..2 -> FanoutNets],
                           validateGenres("fanout", criteria.genres, genreCache,
                                          genreCacheExpiry, tokenCache, now, credsConfigured,
                                          NoNet))
    /\ UNCHANGED <<page, searchForm, impl, nodeEnv, credsConfigured, now, ticks, upstream, requests, lastGenres,
                   history, tokenCache, genreCache, genreCacheExpiry>>

\* the token endpoint answers the exchange of a per-genre call
GenreTokenResponse ==
    \E i \in 1..Len(tasks) :
        /\ op = "searching"
        /\ tasks[i].pc = "exchanging"
        /\ LET exch == IF tasks[i].retry THEN tasks[i].net.exch2 ELSE tasks[i].net.exch1
           IN  /\ tasks' = [tasks EXCEPT ![i].pc = IF exch.ok THEN "requesting" ELSE "done"]
               /\ tokenCache' = IF exch.ok
                                THEN Some([token |-> exch.access_token,
                                           expiresAt |-> TokenExpiry(now, exch.expires_in)])
                                ELSE TokenCacheOnError(tokenCache)
        /\ UNCHANGED <<Quiet, history, genreCache, genreCacheExpiry>>

\* the API answers the request of a per-genre call
GenreApiResponse ==
    \E i \in 1..Len(tasks) :
        /\ op = "searching"
        /\ tasks[i].pc = "requesting"
        /\ LET resp == IF tasks[i].retry THEN tasks[i].net.resp2 ELSE tasks[i].net.resp1
               task == IF tasks[i].retry THEN tasks[i]
                       ELSE [tasks[i] EXCEPT !.first = resp.status]
           IN  IF resp.status = 200
               THEN /\ tasks' = [tasks EXCEPT ![i] =
                                    [task EXCEPT !.pc = "done", !.ok = TRUE, !.body = resp.body]]
                    /\ UNCHANGED tokenCache
               ELSE IF ~task.retry /\ ShouldReauthenticate(resp.status, tokenCache)
               THEN /\ tokenCache' = clearTokenCache(tokenCache)
                    /\ tasks' = [tasks EXCEPT ![i] =
                                    [task EXCEPT !.retry = TRUE,
                                                 !.pc = IF MissingCredentials(credsConfigured)
                                                        THEN "done" ELSE "exchanging"]]
               ELSE /\ tasks' = [tasks EXCEPT ![i] = [task EXCEPT !.pc = "done"]]
                    /\ UNCHANGED tokenCache
        /\ UNCHANGED <<Quiet, history, genreCache, genreCacheExpiry>>

\* await Promise.all(searchPromises): every per-genre promise has settled
AllSettled(ts) == \A k \in 1..Len(ts) : ts[k].pc = "done"

\* Promise.all resolves with the values in the order of the promises passed to it
InPromiseOrder(ts) == [k \in 1..Len(ts) |-> GenreResultOf(ts[k])]

\* part_002:127-152: Promise.all resolves and the results are merged
AwaitAll ==
    /\ op = "searching"
    /\ AllSettled(tasks)
    /\ op' = "searchPlaylistsByGenres"
    /\ ret' = OkRet(CombineResults(InPromiseOrder(tasks), arg.criteria, now))
    /\ UNCHANGED <<page, searchForm, impl, nodeEnv, credsConfigured, now, ticks, arg, upstream, requests,
                   lastGenres, tasks, history, tokenCache, genreCache, genreCacheExpiry>>

\* the caller takes the result
SearchReturn ==
    /\ op = "searchPlaylistsByGenres"
    /\ op' = "idle"
    /\ tasks' = <<>>
    /\ arg' = <<>>
    /\ ret' = OkRet(<<>>)
    /\ UNCHANGED <<page, searchForm, impl, nodeEnv, credsConfigured, now, ticks, upstream, requests, lastGenres,
                   history, tokenCache, genreCache, genreCacheExpiry>>

NextFanout ==
    \/ StartSearch
    \/ GenreTokenResponse
    \/ GenreApiResponse
    \/ AwaitAll
    \/ SearchReturn

\* the fan-out variant with its genre list cached; the token slot filled or empty
InitFanout ==
    /\ impl = "fanout"
    /\ nodeEnv = "production"
    /\ credsConfigured \in BOOLEAN
    /\ now = 0
    /\ ticks = 0
    /\ genreCache = WarmGenres
    /\ genreCacheExpiry = GenreCacheTTL
    /\ tokenCache \in {None, WarmToken}
    /\ op = "idle"
    /\ arg = <<>>
    /\ upstream = <<>>
    /\ requests = <<>>
    /\ ret = OkRet(<<>>)
    /\ lastGenres = WarmGenres
    /\ tasks = <<>>
    /\ history = [tokenStored |-> None, refreshed |-> None]
    /\ page = [isLoading |-> FALSE, searchResults |-> None]
    /\ searchForm = [isLoading |-> FALSE, error |-> ""]

SpecFanout == InitFanout /\ [][NextFanout]_vars


(***************************************************************************)
(* The search page (part_008) and its SearchForm (part_007) in the         *)
(* browser.  A submission runs the form's handleSearch, which emits        *)
(* 'search'; the page's handleSearch runs up to its await $fetch before    *)
(* emit returns.  A task is a page handleSearch waiting for its response.  *)
(***************************************************************************)
\* how many times the form is submitted
MaxSubmissions == 3

\* what the user has selected when submitting; limit is always 50
FormSelections == {<<rock>>, <<rock, jazz>>}

\* part_007 isFormValid, once the genres are loaded
isFormValid(selectedGenres) == Len(selectedGenres) > 0 /\ Len(selectedGenres) <= MaxGenres

\* how the request of a submission ends: a body with playlists, a body without,
\* or a rejected $fetch
FetchOutcomes == {"playlists", "message", "rejected"}

\* part_007:230-250 with part_008:106-114 inside emit('search', searchRequest)
SubmitForm ==
    \E selectedGenres \in FormSelections :
        /\ Len(requests) < MaxSubmissions
        /\ \A k \in 1..Len(tasks) : tasks[k].kind = "handleSearch"
        /\ isFormValid(selectedGenres)
        /\ LET searchRequest == [genres |-> selectedGenres, minFollowerCount |-> 1000,
                                 limit |-> 50]
           IN  /\ requests' = Append(requests, searchRequest)
               /\ tasks' = Append(tasks, [kind |-> "handleSearch", pc |-> "fetching",
                                          submission |-> Len(requests) + 1,
                                          searchRequest |-> searchRequest])
        /\ page' = [isLoading |-> TRUE, searchResults |-> None]
        /\ searchForm' = [isLoading |-> FALSE, error |-> ""]
        /\ UNCHANGED <<impl, nodeEnv, credsConfigured, now, ticks, op, arg, upstream, ret,
                       lastGenres, history, tokenCache, genreCache, genreCacheExpiry>>

\* part_008:114-148: the response of one pending request arrives
ResponseArrives ==
    \E i \in 1..Len(tasks) : \E outcome \in FetchOutcomes :
        /\ tasks[i].kind = "handleSearch"
        /\ tasks' = [k \in 1..(Len(tasks) - 1) |-> IF k < i THEN tasks[k] ELSE tasks[k + 1]]
        /\ page' = [isLoading |-> FALSE,
                    searchResults |->
                        IF outcome = "playlists"
                        THEN Some([searchCriteria |-> tasks[i].searchRequest,
                                   submission |-> tasks[i].submission])
                        ELSE page.searchResults]
        /\ searchForm' = [isLoading |-> FALSE,
                          error |-> IF outcome = "playlists" THEN searchForm.error
                                    ELSE "search failed"]
        /\ UNCHANGED <<impl, nodeEnv, credsConfigured, now, ticks, op, arg, upstream, requests,
                       ret, lastGenres, history, tokenCache, genreCache, genreCacheExpiry>>

NextPage == SubmitForm \/ ResponseArrives

SpecPage == Init /\ [][NextPage]_vars


(***************************************************************************)
(* Properties of the genre validator and the genre cache.                  *)
(***************************************************************************)
\* the k-th smallest element of a finite set of numbers
KthOf(S, k) == CHOOSE i \in S : Cardinality({j \in S : j <= i}) = k

\* the elements of s at the positions in S, in the order of s
Restrict(s, S) == [k \in 1..Cardinality(S) |-> s[KthOf(S, k)]]

\* C7: for a list of 1 to 10 labels, validateGenres returns the trimmed, lower-cased
\* labels split into those that are in the lower-cased available genre list and those
\* that are not, each in input order with its multiplicity, and isValid holds exactly
\* when no label is invalid; ["ROCK","Pop"] against ["rock","pop"] is valid and yields
\* the lower-case labels.
C7_ValidatePartition ==
    (op = "validateGenres" /\ Len(arg) \in 1..MaxGenres /\ ret.ok) =>
        LET available == {toLowerCase(lastGenres[1][i]) : i \in 1..Len(lastGenres[1])}
            normalized == [i \in 1..Len(arg) |-> trim(toLowerCase(arg[i]))]
            validAt == {i \in 1..Len(arg) : normalized[i] \in available}
            invalidAt == (1..Len(arg)) \ validAt
        IN  /\ lastGenres # None
            /\ ret.value.validGenres = Restrict(normalized, validAt)
            /\ ret.value.invalidGenres = Restrict(normalized, invalidAt)
            /\ ret.value.isValid <=> (ret.value.invalidGenres = <<>>)
            /\ (arg = <<RockUpper, JazzUpper>> /\ available = {rock, jazz}) =>
                   (ret.value.isValid /\ ret.value.validGenres = <<rock, jazz>>)

\* validateGenres has split a list with a padded upper-case label and an unknown one
C7_Witness ==
    /\ op = "validateGenres"
    /\ ret.ok
    /\ arg = <<RockPadded, unknownGenre>>
    /\ ret.value.validGenres = <<rock>>
    /\ ret.value.invalidGenres = <<unknownGenre>>
    /\ ~ret.value.isValid

GenreFetches(reqs) == Count("genres", reqs)

\* getAvailableGenres of the SDK variant, called while the cache holds an unexpired
\* entry, issues no request and returns the value the previous call returned
C10_HitServedFromCache ==
    (impl = "sdk" /\ op' = "getAvailableGenres"
        /\ genreCache # None /\ now < genreCacheExpiry) =>
            /\ requests' = <<>>
            /\ ret'.ok
            /\ lastGenres # None
            /\ ret'.value = lastGenres[1]

\* C10 as stated: two sequential getAvailableGenres calls within the TTL return
\* identical values and the second issues no fetch; once the entry has expired or
\* clearGenreCache has run, the next call issues exactly one fetch.
C10_Original ==
    [][/\ C10_HitServedFromCache
       /\ (impl = "sdk" /\ op' = "getAvailableGenres"
              /\ ~(genreCache # None /\ now < genreCacheExpiry)) =>
                  GenreFetches(requests') = 1]_vars

\* C10 amended: as stated, but after an expiry or a clear the next call issues
\* exactly one fetch when the client credentials are configured, and none when they
\* are not.
C10_CacheFetches ==
    [][/\ C10_HitServedFromCache
       /\ (impl = "sdk" /\ op' = "getAvailableGenres"
              /\ ~(genreCache # None /\ now < genreCacheExpiry)) =>
                  GenreFetches(requests') = IF credsConfigured THEN 1 ELSE 0]_vars

\* a call was served from the cache just before the entry's expiry, without a request
C10_Witness ==
    /\ impl = "sdk"
    /\ op = "getAvailableGenres"
    /\ ret.ok
    /\ requests = <<>>
    /\ genreCache # None
    /\ ret.value = genreCache[1]
    /\ now = genreCacheExpiry - 1



(***************************************************************************)
(* Properties of the search orchestrator                                   *)
(***************************************************************************)
\* searchPlaylistsByGenres has resolved with a SearchResult
SearchReturned == op = "searchPlaylistsByGenres" /\ ret.ok

\* the playlist records of the search responses in a log of upstream answers
RECURSIVE ItemsOf(_)
ItemsOf(ups) ==
    IF ups = <<>> THEN <<>>
    ELSE (IF "playlists" \in DOMAIN Head(ups).body
          THEN Head(ups).body.playlists.items ELSE <<>>) \o ItemsOf(Tail(ups))

\* the totals the upstream reported in its search responses
ReportedTotals(ups) ==
    {ups[i].body.playlists.total : i \in {k \in 1..Len(ups) : "playlists" \in DOMAIN ups[k].body}}

WellFormed(item) == item.followers # None /\ item.hasOwner /\ item.hasTracks

\* C1: every playlist of a returned SearchResult has at least
\* criteria.minFollowerCount followers, whatever the upstream answered.
C1_FollowersAtLeastMinimum ==
    SearchReturned =>
        \A i \in 1..Len(ret.value.playlists) :
            ret.value.playlists[i].followerCount >= arg.minFollowerCount

\* the upstream returned a playlist below the minimum and one above it; only the
\* latter is in the result
C1_Witness ==
    /\ SearchReturned
    /\ arg.minFollowerCount = 1500
    /\ \E k \in 1..Len(ItemsOf(upstream)) : ItemsOf(upstream)[k].followers = Some(500)
    /\ Len(ret.value.playlists) = 1
    /\ ret.value.playlists[1].followerCount = 2000

\* C2: a returned SearchResult holds at most criteria.limit playlists, for any number
\* of genres searched and of items returned by the upstream.
C2_AtMostLimit ==
    SearchReturned => Len(ret.value.playlists) <= arg.limit

\* two genres were searched, the upstream returned two different qualifying playlists
\* and the limit of 1 cut the result to one
C2_Witness ==
    /\ SearchReturned
    /\ arg.limit = 1
    /\ arg.minFollowerCount = 0
    /\ Len(arg.genres) = 2
    /\ \E k, l \in 1..Len(ItemsOf(upstream)) :
          /\ WellFormed(ItemsOf(upstream)[k]) /\ WellFormed(ItemsOf(upstream)[l])
          /\ ItemsOf(upstream)[k].id # ItemsOf(upstream)[l].id
    /\ Len(ret.value.playlists) = 1

\* C3: totalFound of a returned SearchResult is the number of playlists in the result,
\* not the total the upstream reported.
C3_TotalFoundIsLength ==
    SearchReturned => ret.value.totalFound = Len(ret.value.playlists)

\* the upstream reported a total of 9 for a response of which one playlist survived
\* the follower filter
C3_Witness ==
    /\ SearchReturned
    /\ ReportedTotals(upstream) = {9}
    /\ Len(ret.value.playlists) = 1
    /\ ret.value.totalFound = 1

\* C4 as stated: the playlist ids of every returned SearchResult are pairwise
\* distinct; a playlist the upstream returned more than once appears once.
C4_Original ==
    SearchReturned =>
        \A i, j \in 1..Len(ret.value.playlists) :
            i # j => ret.value.playlists[i].id # ret.value.playlists[j].id

\* C5 as stated: the playlists of a returned SearchResult are upstream playlists with
\* at least criteria.minFollowerCount followers, each id once, in descending follower
\* order, at most criteria.limit of them, and a well-formed qualifying playlist
\* returned by genre searches that all succeeded is left out only when the result holds
\* criteria.limit playlists with at least as many followers; totalFound is their number.
C5_Original ==
    SearchReturned =>
        LET res == ret.value.playlists
            items == ItemsOf(upstream)
            min == arg.minFollowerCount
        IN  /\ \A i \in 1..Len(res) :
                  /\ res[i].followerCount >= min
                  /\ \E k \in 1..Len(items) :
                        /\ items[k].id = res[i].id
                        /\ items[k].followers = Some(res[i].followerCount)
            /\ \A i, j \in 1..Len(res) : i # j => res[i].id # res[j].id
            /\ \A i, j \in 1..Len(res) : i < j => res[i].followerCount >= res[j].followerCount
            /\ Len(res) <= arg.limit
            /\ \A k \in 1..Len(items) :
                  (/\ WellFormed(items[k])
                   /\ \A l \in 1..Len(items) : items[l].hasOwner /\ items[l].hasTracks
                                                  => items[l].followers # None
                   /\ items[k].followers[1] >= min
                   /\ \A i \in 1..Len(res) : res[i].id # items[k].id)
                  => /\ Len(res) = arg.limit
                     /\ \A i \in 1..Len(res) : res[i].followerCount >= items[k].followers[1]
            /\ ret.value.totalFound = Len(res)

\* C6: the playlists of every returned SearchResult are in descending follower order.
C6_SortedDescending ==
    SearchReturned =>
        \A i, j \in 1..Len(ret.value.playlists) :
            i < j => ret.value.playlists[i].followerCount >= ret.value.playlists[j].followerCount

\* the upstream listed a playlist of 500 followers before one of 2000; the result has
\* them the other way round
C6_Witness ==
    /\ SearchReturned
    /\ \E k, l \in 1..Len(ItemsOf(upstream)) :
          /\ k < l
          /\ ItemsOf(upstream)[k].followers = Some(500)
          /\ ItemsOf(upstream)[l].followers = Some(2000)
    /\ Len(ret.value.playlists) = 2
    /\ ret.value.playlists[1].followerCount = 2000
    /\ ret.value.playlists[2].followerCount = 500

\* the normalized labels of a criteria that are not in the available genre list
OffendingGenres(genres, available) ==
    {trim(toLowerCase(genres[i])) : i \in 1..Len(genres)}
        \ {toLowerCase(available[i]) : i \in 1..Len(available)}

\* the label occurs in a variable part of the message
NamesGenre(message, label) ==
    \E p \in 1..Len(message) :
        \E from \in 1..Len(message[p].chars) :
            /\ from + Len(label) - 1 <= Len(message[p].chars)
            /\ SubSeq(message[p].chars, from, from + Len(label) - 1) = label

\* C9 as stated: a search whose criteria hold a genre that is not in the available
\* genre list fails, issues no playlist search request, and raises an error that names
\* every offending genre.
C9_Original ==
    (/\ op = "searchPlaylistsByGenres"
     /\ genreCache # None
     /\ OffendingGenres(arg.genres, genreCache[1]) # {})
        => /\ ~ret.ok
           /\ Count("search", requests) = 0
           /\ \A g \in OffendingGenres(arg.genres, genreCache[1]) :
                 NamesGenre(ret.error.message, g)


(***************************************************************************)
(* Properties of the stale-cache fallback                                  *)
(***************************************************************************)
\* some answer in the log delivered a genre list the variant can cache
GenresDelivered(i, ups) ==
    \E k \in 1..Len(ups) :
        IF i = "sdk" THEN ups[k].ok
        ELSE ups[k].status = 200 /\ ups[k].body.genres # None

\* this step is a getAvailableGenres call that had to fetch and whose fetch failed
GenreFetchFailedStep ==
    /\ impl # "curated"
    /\ op' = "getAvailableGenres"
    /\ ~(genreCache # None /\ now < genreCacheExpiry)
    /\ ~GenresDelivered(impl, upstream')

\* C11 as stated: when the genre fetch fails, getAvailableGenres returns the list
\* cached earlier whenever some call has cached one before, and raises only if no
\* value has ever been cached, whatever calls, clears and clock advances came before.
C11_Original ==
    [][GenreFetchFailedStep =>
          IF lastGenres # None
          THEN ret'.ok /\ ret'.value = lastGenres[1]
          ELSE ~ret'.ok]_vars

\* C11 amended: when the genre fetch fails, getAvailableGenres returns the list the
\* cache holds, expired or not, and leaves the cache as it is; it raises exactly when
\* the cache is empty, be it never filled or emptied by clearGenreCache.
C11_StaleFallback ==
    [][GenreFetchFailedStep =>
          IF genreCache # None
          THEN /\ ret'.ok
               /\ ret'.value = genreCache[1]
               /\ genreCache' = genreCache
               /\ genreCacheExpiry' = genreCacheExpiry
          ELSE ~ret'.ok /\ genreCache' = None]_vars

\* a failed refresh of an expired entry has been answered with the expired list
C11_Witness ==
    /\ op = "getAvailableGenres"
    /\ impl # "curated"
    /\ genreCache # None
    /\ now >= genreCacheExpiry
    /\ ~GenresDelivered(impl, upstream)
    /\ ret.ok
    /\ ret.value = genreCache[1]


(***************************************************************************)
(* Properties of the token provider and the request wrapper                *)
(***************************************************************************)
\* getSpotifyAccessToken would answer from the cache in this state
TokenCached == tokenCache # None /\ now < tokenCache[1].expiresAt

\* the token request, if any, by which the call about to start obtains its first token
FirstTokenRequests == IF TokenCached THEN <<>> ELSE <<TokenRequest>>

\* this step is a makeSpotifyRequest call whose first response is 401
Unauthorized401Step ==
    /\ op' = "makeSpotifyRequest"
    /\ Len(upstream') >= 1
    /\ upstream'[1].status = 401

MentionsStatus(error, text) ==
    \E p \in 1..Len(error.message) : error.message[p] = Lit(text)

\* a second 401 fails the call with the 401 error and without a third request
SecondUnauthorizedIsTerminal ==
    (Len(upstream') = 2 /\ upstream'[2].status = 401) =>
        /\ ~ret'.ok
        /\ MentionsStatus(ret'.error, "401")
        /\ Count("genres", requests') = 2

\* C12 as stated: a makeSpotifyRequest call whose first response is 401 clears the
\* token cache once, re-authenticates once and retries the request once (so its
\* requests are: the request, one token exchange, the request again); a second 401
\* fails the call with the authentication error and nothing more is sent.
C12_Original ==
    [][Unauthorized401Step =>
          /\ requests' = FirstTokenRequests \o <<arg', TokenRequest, arg'>>
          /\ SecondUnauthorizedIsTerminal]_vars

\* C12 amended: after a first 401 the call drops the cached token and asks for a
\* new one: exactly one token exchange when the credentials are configured, none when
\* they are not. It retries the request once if and only if that re-authentication
\* succeeds, in which case the new token is cached; otherwise the call fails with the
\* token cache empty. A second 401 fails the call with the 401 error and nothing more
\* is sent.
C12_RetryOnce ==
    [][Unauthorized401Step =>
          LET reauth == IF credsConfigured THEN <<TokenRequest>> ELSE <<>>
              retried == Len(upstream') = 2
          IN  /\ requests' = FirstTokenRequests \o <<arg'>> \o reauth
                               \o (IF retried THEN <<arg'>> ELSE <<>>)
              /\ retried <=> tokenCache' # None
              /\ ~retried => ~ret'.ok
              /\ (retried /\ upstream'[2].status = 200) => ret'.ok
              /\ SecondUnauthorizedIsTerminal]_vars

\* a call that found a valid token in the cache got 401, exchanged a new token and
\* succeeded on the retry
C12_Witness ==
    /\ op = "makeSpotifyRequest"
    /\ requests = <<GenreSeedsRequest, TokenRequest, GenreSeedsRequest>>
    /\ Len(upstream) = 2
    /\ upstream[1].status = 401
    /\ upstream[2].status = 200
    /\ ret.ok
    /\ tokenCache # None


\* a getSpotifyAccessToken call that finds an unexpired entry returns its token,
\* sends nothing and leaves the slot as it is
TokenHitServedFromCache ==
    (op' = "getSpotifyAccessToken" /\ TokenCached) =>
        /\ requests' = <<>>
        /\ ret'.ok
        /\ ret'.value = tokenCache[1].token
        /\ tokenCache' = tokenCache

\* a successful exchange fills the slot with the new token, expiring expires_in
\* seconds after the exchange less the 5-minute buffer
TokenStored ==
    ret'.ok =>
        /\ ret'.value = upstream'[1].access_token
        /\ tokenCache' = Some([token |-> upstream'[1].access_token,
                               expiresAt |-> now + (upstream'[1].expires_in * 1000) - 300000])

\* C13 as stated: getSpotifyAccessToken answers from the cache, with no token
\* request, whenever an entry exists and the time is before its stored expiry (the
\* exchange time plus expires_in minus 5 minutes); otherwise it performs exactly one
\* token exchange and stores the new token in the slot.
C13_Original ==
    [][/\ TokenHitServedFromCache
       /\ (op' = "getSpotifyAccessToken" /\ ~TokenCached) =>
              /\ requests' = <<TokenRequest>>
              /\ TokenStored]_vars

\* C13 amended: as stated, but without a cached unexpired token the call performs
\* exactly one token exchange only when the client credentials are configured, and
\* stores the token when the exchange succeeds; when a credential is missing it fails
\* without any request and leaves the slot as it is.
C13_TokenCache ==
    [][/\ TokenHitServedFromCache
       /\ (op' = "getSpotifyAccessToken" /\ ~TokenCached) =>
              IF credsConfigured
              THEN requests' = <<TokenRequest>> /\ TokenStored
              ELSE requests' = <<>> /\ ~ret'.ok /\ tokenCache' = tokenCache]_vars

\* a call one millisecond before the stored expiry of a one-hour token was served
\* from the cache
C13_Witness ==
    /\ op = "getSpotifyAccessToken"
    /\ requests = <<>>
    /\ ret.ok
    /\ tokenCache # None
    /\ tokenCache[1].expiresAt = now + 1
    /\ tokenCache[1].expiresAt = (3600 * 1000) - 300000


\* C14 as stated: whenever getSpotifyAccessToken fails (a credential missing, a
\* non-2xx token response, a network error) the token cache is empty afterwards.
C14_Original ==
    [][(op' = "getSpotifyAccessToken" /\ ~ret'.ok) => tokenCache' = None]_vars

\* C14 amended: when the token exchange fails (non-2xx response or network error)
\* the token cache is empty afterwards; when a credential is missing the call fails
\* before the exchange and leaves the cache as it is, which then holds no unexpired
\* token. Either way the next call is not answered from the cache.
C14_NoTokenAfterFailure ==
    [][(op' = "getSpotifyAccessToken" /\ ~ret'.ok) =>
          /\ IF requests' = <<TokenRequest>>
             THEN tokenCache' = None
             ELSE requests' = <<>> /\ ~credsConfigured /\ tokenCache' = tokenCache
          /\ ~(tokenCache' # None /\ now < tokenCache'[1].expiresAt)]_vars

\* an exchange attempted after the clock had advanced failed and left the slot empty
C14_Witness ==
    /\ op = "getSpotifyAccessToken"
    /\ ~ret.ok
    /\ requests = <<TokenRequest>>
    /\ tokenCache = None
    /\ now > 0


(***************************************************************************)
(* Properties of failure handling in the search                            *)
(***************************************************************************)
\* the criteria of the completed search passed validation against the cached list
SearchValidated ==
    /\ op = "searchPlaylistsByGenres"
    /\ genreCache # None
    /\ OffendingGenres(arg.genres, genreCache[1]) = {}

\* the records of a search response can all be mapped by the fan-out
Mappable(items) ==
    \A k \in 1..Len(items) : (items[k].hasOwner /\ items[k].hasTracks) => items[k].followers # None

\* the playlist records of the per-genre searches that succeeded
RECURSIVE ItemsOfSucceeded(_)
ItemsOfSucceeded(ups) ==
    IF ups = <<>> THEN <<>>
    ELSE (IF "playlists" \in DOMAIN Head(ups).body /\ Mappable(Head(ups).body.playlists.items)
          THEN Head(ups).body.playlists.items ELSE <<>>) \o ItemsOfSucceeded(Tail(ups))

\* a per-genre search of the completed call failed: its request was refused, or a
\* record of its response could not be mapped
SomeGenreFailed ==
    \E k \in 1..Len(upstream) :
        \/ ("playlists" \notin DOMAIN upstream[k].body /\ upstream[k].status # 200)
        \/ ("playlists" \in DOMAIN upstream[k].body /\ ~Mappable(upstream[k].body.playlists.items))

\* C15: in the fan-out variant a search whose genres are valid resolves whatever
\* per-genre searches fail; its playlists are complete records of the searches that
\* succeeded, and a qualifying record of a succeeded search is missing only when
\* criteria.limit playlists with at least as many followers are returned.
C15_FailuresAbsorbed ==
    (impl = "fanout" /\ SearchValidated) =>
        /\ ret.ok
        /\ With(SelectSeq(ItemsOfSucceeded(upstream), WellFormed), LAMBDA good :
           With(ret.value.playlists, LAMBDA res :
               /\ \A i \in 1..Len(res) :
                     \E k \in 1..Len(good) :
                         /\ good[k].id = res[i].id
                         /\ good[k].followers = Some(res[i].followerCount)
               /\ \A k \in 1..Len(good) :
                     (/\ good[k].followers[1] >= arg.minFollowerCount
                      /\ \A i \in 1..Len(res) : res[i].id # good[k].id)
                     => /\ Len(res) = arg.limit
                        /\ \A i \in 1..Len(res) :
                              res[i].followerCount >= good[k].followers[1]))

\* of two genres searched one was answered 429 and the other returned one playlist,
\* which is the result
C15_Witness ==
    /\ impl = "fanout"
    /\ SearchValidated
    /\ Len(arg.genres) = 2
    /\ \E k \in 1..Len(upstream) : upstream[k].status = 429
    /\ Len(ItemsOfSucceeded(upstream)) = 1
    /\ ret.ok
    /\ Len(ret.value.playlists) = 1

\* the record lacks followers.total or owner
Malformed(item) == item.followers = None \/ ~item.hasOwner

\* C16 as stated: a malformed record in a search response does not make
\* searchPlaylistsByGenres fail; the record is dropped and the well-formed records of
\* the same response are still returned (up to criteria.limit, by followers).
C16_Original ==
    (/\ SearchValidated
     /\ \E k \in 1..Len(ItemsOf(upstream)) : Malformed(ItemsOf(upstream)[k]))
        => /\ ret.ok
           /\ \A k \in 1..Len(ItemsOf(upstream)) :
                 LET item == ItemsOf(upstream)[k]
                     res == ret.value.playlists
                 IN  /\ Malformed(item) => \A i \in 1..Len(res) : res[i].id # item.id
                     /\ (WellFormed(item) /\ item.followers[1] >= arg.minFollowerCount
                           /\ \A i \in 1..Len(res) : res[i].id # item.id)
                        => /\ Len(res) = arg.limit
                           /\ \A i \in 1..Len(res) : res[i].followerCount >= item.followers[1]


(***************************************************************************)
(* Properties of POST /search/playlists                                    *)
(***************************************************************************)
PostAnswered == op = "postSearchPlaylists"

\* genres is an array of 1 to 10 non-empty strings
GenresShapeOk(body) ==
    /\ body.genres.type = "array"
    /\ Len(body.genres.items) \in 1..10
    /\ \A k \in 1..Len(body.genres.items) :
          body.genres.items[k].type = "string" /\ body.genres.items[k].chars # <<>>

\* the body fails the shape check of the endpoint
FailsShapeCheck(body) ==
    \/ body.type # "object"
    \/ ~GenresShapeOk(body)
    \/ body.minFollowerCount.type # "number"
    \/ body.minFollowerCount.number < 0
    \/ /\ body.limit.type # "undefined"
       /\ (body.limit.type # "number" \/ body.limit.number \notin 1..50)

\* C17 as stated: every request body that fails the shape check, a null or missing
\* body included, is answered 400 with a validation error, and searchPlaylistsByGenres
\* is not invoked for it.
C17_Original ==
    (PostAnswered /\ FailsShapeCheck(arg))
        => /\ ret.value.status = 400
           /\ ret.value.body.error = "VALIDATION_ERROR"
           /\ ret.calls = <<>>

\* C18 as stated: a well-formed body naming a genre that is not in the available
\* genre list is answered 400, not 500.
C18_Original ==
    (/\ PostAnswered
     /\ ~FailsShapeCheck(arg)
     /\ genreCache # None
     /\ OffendingGenres(SearchCriteriaOf(arg).genres, genreCache[1]) # {})
        => ret.value.status = 400

\* the upstream answered a playlist search of the request with status 429
SearchAnswered429 ==
    \E k \in 1..Len(upstream) :
        IF "status" \in DOMAIN upstream[k] THEN upstream[k].status = 429
        ELSE ~upstream[k].ok /\ upstream[k].error.status = Some(429)

\* C19 as stated: when the upstream answers the playlist search with 429 the endpoint
\* answers 429, not 200 or 500.
C19_Original ==
    (PostAnswered /\ SearchAnswered429) => ret.value.status = 429


(***************************************************************************)
(* Properties of the error mapping                                         *)
(***************************************************************************)
\* the user-facing message of a status that has its own
OwnMessage(st) ==
    CASE st = 400 -> "Invalid search parameters. Please check your genre selection and follower count."
      [] st = 401 -> "Spotify authentication failed. Please check configuration."
      [] st = 403 -> "Access denied. Please verify your Spotify app permissions."
      [] st = 404 -> "The requested resource was not found."
      [] st = 429 -> "Too many requests. Please try again in a moment."

\* C20 as stated: mapSpotifyError gives 400, 401, 403, 404 and 429 each its own fixed
\* message, every status in 500..599 the 'temporarily unavailable' message, and any
\* other or missing status the generic message with the error's message as details.
C20_Original ==
    op = "mapSpotifyError" =>
        LET st == IF arg.status = None THEN 0 - 1 ELSE arg.status[1]
        IN  CASE st \in {400, 401, 403, 404, 429} ->
                    ret.value.message = <<Lit(OwnMessage(st))>>
              [] st \in 500..599 ->
                    ret.value.message
                        = <<Lit("Spotify is temporarily unavailable. Please try again later.")>>
              [] OTHER ->
                    /\ ret.value.message
                           = <<Lit("Unable to connect to Spotify. Please try again later.")>>
                    /\ ret.value.details = arg.message


(***************************************************************************)
(* Properties of the retry policy of the request layer                     *)
(***************************************************************************)
\* rateLimitConfig.maxRetries
MaxRetries == 3

\* the requests of the completed makeSpotifyRequest call that went to the API
ApiRequests == Count(arg.kind, requests)

\* C21 as stated: makeSpotifyRequest re-issues a request answered 429 or 5xx, at most
\* maxRetries times, and re-issues after no other error status except once after 401.
C21_Original ==
    (op = "makeSpotifyRequest" /\ Len(upstream) >= 1) =>
        LET st == upstream[1].status
        IN  /\ (st = 429 \/ st \in 500..599) =>
                   (ApiRequests >= 2 /\ ApiRequests <= 1 + MaxRetries)
            /\ st = 401 => ApiRequests <= 2
            /\ (st # 401 /\ st # 429 /\ st \notin 500..599) => ApiRequests = 1


(***************************************************************************)
(* Properties of the error responses in production mode                    *)
(***************************************************************************)
\* an endpoint answered with an error while the process runs in production mode
ProductionError ==
    /\ op \in {"getGenres", "postSearchPlaylists"}
    /\ nodeEnv = "production"
    /\ ret.value.status # 200

\* the user-facing message of an error code that has a fixed one
MessageOf(code) ==
    CASE code = "SPOTIFY_API_ERROR" -> "Unable to fetch available genres. Please try again later."
      [] code = "VALIDATION_ERROR" ->
            "Invalid request format. Required: genres (array, 1-10 items), minFollowerCount (number >= 0), optional: limit (number 1-50)"
      [] code = "RATE_LIMIT_ERROR" -> "Too many requests. Please wait a moment and try again."
      [] code = "SPOTIFY_AUTH_ERROR" ->
            "Spotify service authentication failed. Please try again later."
      [] code = "SEARCH_ERROR" -> "Unable to search playlists. Please try again later."
      [] OTHER -> ""

\* the response has no details property, or an undefined one
NoDetails(body) == "details" \in DOMAIN body => body.details = None

FailsFast ==
    /\ ~ret'.ok
    /\ ret'.error.message
         = <<Lit("Spotify API credentials not configured. Please set SPOTIFY_CLIENT_ID and SPOTIFY_CLIENT_SECRET environment variables.")>>
    /\ requests' = <<>>
    /\ upstream' = <<>>

\* C23 as stated: without the client id or secret getSpotifyClient and
\* getSpotifyAccessToken fail at once with the 'credentials not configured' error and
\* issue no request.
C23_Original ==
    [][(op' \in {"getSpotifyClient", "getSpotifyAccessToken"} /\ ~credsConfigured)
          => FailsFast]_vars

\* C23 amended: without the client id or secret getSpotifyClient fails at once with
\* the 'credentials not configured' error; getSpotifyAccessToken does so unless an
\* unexpired token is cached, in which case it returns that token. Neither issues a
\* request.
C23_FailFast ==
    [][(op' \in {"getSpotifyClient", "getSpotifyAccessToken"} /\ ~credsConfigured)
          => IF op' = "getSpotifyAccessToken" /\ TokenCached
             THEN /\ ret'.ok
                  /\ ret'.value = tokenCache[1].token
                  /\ requests' = <<>>
                  /\ upstream' = <<>>
             ELSE FailsFast]_vars

\* getSpotifyAccessToken was called without credentials and with no unexpired token
\* cached, and failed with the configuration error
C23_Witness ==
    /\ op = "getSpotifyAccessToken"
    /\ ~credsConfigured
    /\ ~(tokenCache # None /\ now < tokenCache[1].expiresAt)
    /\ ~ret.ok
    /\ requests = <<>>


(***************************************************************************)
(* Properties of the order of the genre list                               *)
(***************************************************************************)
\* no element of the list is smaller than an earlier one
Ascending(list) ==
    \A i \in 1..Len(list) : \A j \in (i + 1)..Len(list) : ~StrLess(list[j], list[i])

\* C24: every list getAvailableGenres returns is in ascending order, whether fetched,
\* served from the unexpired cache or served stale after a failed refresh, and in
\* every reachable state the genre cache is empty or holds an ascending list.
C24_GenresSorted ==
    /\ genreCache # None => Ascending(genreCache[1])
    /\ (op = "getAvailableGenres" /\ ret.ok) => Ascending(ret.value)

\* the upstream answered with a list that is not in order and the call returned and
\* cached its labels in order
C24_Witness ==
    /\ op = "getAvailableGenres"
    /\ ret.ok
    /\ Len(ret.value) = 2
    /\ \E k \in 1..Len(upstream) :
          /\ upstream[k].body.genres # None
          /\ ~Ascending(upstream[k].body.genres[1])
    /\ genreCache = Some(ret.value)


(***************************************************************************)
(* Properties of the two strategies compared                               *)
(***************************************************************************)
IdsOf(playlists) == [k \in 1..Len(playlists) |-> playlists[k].id]

\* C25 as stated: for the same criteria and an upstream whose combined answer holds
\* the playlists of its per-genre answers, the SDK-based search and the fan-out search
\* return the same ids in the same order and the same totalFound, and fail in the
\* same cases.
C25_Original ==
    (op = "searchBothStrategies" /\ credsConfigured) =>
        /\ ret.value.combined.ok = ret.value.fanout.ok
        /\ ret.value.combined.ok =>
              /\ IdsOf(ret.value.combined.value.playlists)
                   = IdsOf(ret.value.fanout.value.playlists)
              /\ ret.value.combined.value.totalFound = ret.value.fanout.value.totalFound

(***************************************************************************)
(* Properties of concurrent calls.                                         *)
(***************************************************************************)
\* a settled makeSpotifyRequest call whose first response was 401
FirstResponse401(task) ==
    task.kind = "makeSpotifyRequest" /\ task.pc = "done" /\ task.first = 401

\* C28: under any interleaving of makeSpotifyRequest calls sharing the token
\* slot, every call whose first response is 401 performs its one
\* re-authentication and retry, even when another call has cleared or
\* replaced the cached token before the 401 arrived.
C28_Original ==
    \A k \in 1..Len(tasks) : FirstResponse401(tasks[k]) => tasks[k].retry

\* the latest successful exchange stored an unexpired token and no
\* clearTokenCache or 401 followed it
ValidTokenStored ==
    history.tokenStored # None /\ history.tokenStored[1].expiresAt > now

\* C29: a token exchange that fails in one call never removes a still-valid
\* token stored by another call's successful exchange: when the latest
\* successful exchange stored an unexpired token and no clearTokenCache or 401
\* followed, the next getSpotifyAccessToken call is served from the cache.
C29_Original ==
    [][CallGetSpotifyAccessToken /\ ValidTokenStored => tasks'[Len(tasks')].hit]_vars

\* the call made its own upstream refresh
Refreshed(task) ==
    IF task.kind = "getAvailableGenres" THEN task.sent > 0 ELSE task.exchanged > 0

\* two settled calls of one cached lookup that both refreshed
TwoRefreshes(kind) ==
    /\ Len(tasks) = 2
    /\ \A k \in 1..2 : tasks[k].kind = kind /\ tasks[k].pc = "done" /\ Refreshed(tasks[k])

AtMostOneRefreshEach ==
    \A k \in 1..Len(tasks) :
        /\ tasks[k].kind = "getAvailableGenres" => tasks[k].sent <= 1
        /\ tasks[k].kind = "getSpotifyAccessToken" => tasks[k].exchanged <= 1

InGenreOrder ==
    searchPlaylistsByGenres_fanout(arg.criteria, genreCache, genreCacheExpiry, arg.tokenCache,
                                   now, credsConfigured,
                                   [genres |-> NoNet, searches |-> arg.nets])

FanoutAnswered == op = "searchPlaylistsByGenres" /\ ret.ok

\* C26: the fan-out's SearchResult is produced only after every per-genre
\* request has settled, and it is the same for every order in which the
\* requests complete: it is the merge, in the order of the validated genre
\* list, of what the upstream answered each genre.
C26_Original ==
    FanoutAnswered => AllSettled(tasks) /\ ret.value = InGenreOrder.value

\* no per-genre call of the search had 401 as its first response
NoFirst401 == \A k \in 1..Len(tasks) : tasks[k].first # 401

\* the result is that of genre-order completion when no first response is 401
C26_WithoutReauthentication ==
    (FanoutAnswered /\ NoFirst401) => AllSettled(tasks) /\ ret.value = InGenreOrder.value

(***************************************************************************)
(* Properties of the search page.                                          *)
(***************************************************************************)
\* a search request of the page is in flight
SearchInFlight == \E k \in 1..Len(tasks) : tasks[k].kind = "handleSearch"

\* what the page displays comes from the latest submission
ShowsLatest ==
    page.searchResults # None => page.searchResults[1].submission = Len(requests)

\* C30: once no search request is in flight the displayed results are those
\* of the most recently submitted search and the page's loading flag is
\* false; while a request is in flight the loading flag is true, and a
\* slower response to an earlier submission never overwrites the response to
\* a later one.
C30_Original ==
    /\ (requests # <<>> /\ ~SearchInFlight) => (~page.isLoading /\ ShowsLatest)
    /\ SearchInFlight => page.isLoading

\* with one request at a time the page behaves as described
C30_OneAtATime ==
    (Len(requests) = 1) =>
        /\ SearchInFlight => page.isLoading
        /\ ~SearchInFlight => ~page.isLoading
        /\ ShowsLatest

====
